---- MODULE Spec2Model ----
(***************************************************************************)
(* A model of the OpenAPI generation engine of moleculer-auto-openapi:     *)
(* OpenApiGenerator (document assembler, parameter extractor, component    *)
(* store) and FastestValidatorConverter (rule -> schema fragment).         *)
(*                                                                         *)
(* JavaScript values are modelled as tagged trees: an object keeps its key *)
(* insertion order (k) beside its key -> value map (f); an array is a      *)
(* sequence; undefined is a value of its own, so that a key holding        *)
(* undefined differs from an absent key where the code can tell.           *)
(***************************************************************************)
EXTENDS Integers, Sequences, FiniteSets, TLC

(***************************************************************************)
(* JavaScript values                                                       *)
(***************************************************************************)
Undefined == [t |-> "undef"]

Str(v) == [t |-> "str", v |-> v]

Bool(b) == [t |-> "bool", b |-> b]

Num(n) == [t |-> "num", n |-> n]

Arr(s) == [t |-> "arr", s |-> s]

EmptyObj == [t |-> "obj", k |-> <<>>, f |-> <<>>]

IsObj(v) == v.t = "obj"

IsArr(v) == v.t = "arr"

IsUndefined(v) == v.t = "undef"

\* JavaScript truthiness (an empty string, false, 0 and undefined are falsy).
Truthy(v) ==
    CASE v.t = "undef" -> FALSE
      [] v.t = "bool" -> v.b
      [] v.t = "str" -> v.v # ""
      [] v.t = "num" -> v.n # 0
      [] OTHER -> TRUE

Has(o, key) == IsObj(o) /\ key \in DOMAIN o.f

\* o[key], and o?.[key] when o is undefined.
Get(o, key) == IF Has(o, key) THEN o.f[key] ELSE Undefined

\* o[key] = v: a new key goes last, an existing key keeps its place.
Set(o, key, v) ==
    [t |-> "obj",
     k |-> IF key \in DOMAIN o.f THEN o.k ELSE Append(o.k, key),
     f |-> [x \in (DOMAIN o.f) \cup {key} |-> IF x = key THEN v ELSE o.f[x]]]

\* delete o[key]
Del(o, key) ==
    IF ~Has(o, key) THEN o
    ELSE [t |-> "obj",
          k |-> SelectSeq(o.k, LAMBDA x : x # key),
          f |-> [x \in (DOMAIN o.f) \ {key} |-> o.f[x]]]

\* Object.entries(o): <<key, value>> pairs in insertion order.
Entries(o) == [i \in 1..Len(o.k) |-> <<o.k[i], o.f[o.k[i]]>>]

RECURSIVE SetAll(_, _)
SetAll(o, entries) ==
    IF entries = <<>> THEN o
    ELSE SetAll(Set(o, Head(entries)[1], Head(entries)[2]), Tail(entries))

\* Object.fromEntries(entries)
FromEntries(entries) == SetAll(EmptyObj, entries)

\* { ...a, ...b }; spreading undefined adds nothing.
Spread(a, b) ==
    LET base == IF IsObj(a) THEN a ELSE EmptyObj
    IN IF IsObj(b) THEN SetAll(base, Entries(b)) ELSE base

\* An object literal written as a sequence of <<key, value>> pairs.
Obj(entries) == FromEntries(entries)

\* Object.keys(o).length
Size(o) == IF IsObj(o) THEN Len(o.k) ELSE 0

SeqToSet(s) == {s[i] : i \in 1..Len(s)}

Includes(s, x) == \E i \in 1..Len(s) : s[i] = x

(***************************************************************************)
(* Strings: URL templates and their ordering                               *)
(***************************************************************************)
CharAt(s, i) == SubSeq(s, i, i)

\* UTF-16 code unit of the characters the modelled URL templates use.
CharCode(c) ==
    CASE c = "/" -> 47
      [] c = "1" -> 49
      [] c = "2" -> 50
      [] c = ":" -> 58
      [] c = "a" -> 97
      [] c = "b" -> 98
      [] c = "c" -> 99
      [] c = "d" -> 100
      [] c = "e" -> 101
      [] c = "f" -> 102
      [] c = "g" -> 103
      [] c = "i" -> 105
      [] c = "k" -> 107
      [] c = "q" -> 113
      [] c = "r" -> 114
      [] c = "t" -> 116
      [] c = "{" -> 123
      [] c = "}" -> 125

\* \w of the regular expression in extractParamsFromUrl.
IsWordChar(c) == c \in {"a", "b", "c", "d", "e", "i", "k"}

RECURSIVE StrLessFrom(_, _, _)
StrLessFrom(a, b, i) ==
    IF i > Len(b) THEN FALSE
    ELSE IF i > Len(a) THEN TRUE
    ELSE IF CharAt(a, i) = CharAt(b, i) THEN StrLessFrom(a, b, i + 1)
    ELSE CharCode(CharAt(a, i)) < CharCode(CharAt(b, i))

\* a < b, lexicographically by code unit.
StrLess(a, b) == StrLessFrom(a, b, 1)

\* s.indexOf(pat, from), 1-based; 0 when there is no occurrence.
RECURSIVE IndexOf(_, _, _)
IndexOf(s, pat, from) ==
    IF from + Len(pat) - 1 > Len(s) THEN 0
    ELSE IF SubSeq(s, from, from + Len(pat) - 1) = pat THEN from
    ELSE IndexOf(s, pat, from + 1)

\* commons.normalizePath: runs of slashes collapse to one slash.
RECURSIVE normalizePath(_)
normalizePath(path) ==
    LET at == IndexOf(path, "//", 1)
    IN IF at = 0 THEN path
       ELSE normalizePath(SubSeq(path, 1, at) \o SubSeq(path, at + 2, Len(path)))

\* formatParamUrl: /:table becomes /{table}
RECURSIVE formatParamUrl(_)
formatParamUrl(url) ==
    LET slash == IndexOf(url, "/:", 1)
        end == IndexOf(url, "/", slash + 1)
    IN IF slash = 0 THEN url
       ELSE IF end = 0
            THEN SubSeq(url, 1, slash) \o "{" \o SubSeq(url, slash + 2, Len(url)) \o "}"
            ELSE formatParamUrl(SubSeq(url, 1, slash) \o "{"
                                \o SubSeq(url, slash + 2, end - 1) \o "}"
                                \o SubSeq(url, end, Len(url)))

\* The end of the run of word characters that starts at i (i - 1 when empty).
RECURSIVE WordEnd(_, _)
WordEnd(s, i) ==
    IF i <= Len(s) /\ IsWordChar(CharAt(s, i)) THEN WordEnd(s, i + 1) ELSE i - 1

\* commons.matchAll(/{(\w+)}/g, url).flat(): the captured names, left to right.
RECURSIVE matchAll(_, _)
matchAll(url, i) ==
    IF i > Len(url) THEN <<>>
    ELSE IF CharAt(url, i) = "{"
         THEN LET e == WordEnd(url, i + 1)
              IN IF e >= i + 1 /\ e < Len(url) /\ CharAt(url, e + 1) = "}"
                 THEN <<SubSeq(url, i + 1, e)>> \o matchAll(url, e + 2)
                 ELSE matchAll(url, i + 1)
         ELSE matchAll(url, i + 1)


(***************************************************************************)
(* FastestValidatorConverter: validation rule -> schema fragment           *)
(***************************************************************************)
\* The internal marker fields (EOAExtensions), stripped before output.
EOAExtensions ==
    [optional |-> "x-fv-optional", description |-> "x-fv-description",
     summary |-> "x-fv-summary", deprecated |-> "x-fv-deprecated"]

ExtensionKeys ==
    <<EOAExtensions.optional, EOAExtensions.description,
      EOAExtensions.summary, EOAExtensions.deprecated>>

StartsWith(s, prefix) == Len(s) >= Len(prefix) /\ SubSeq(s, 1, Len(prefix)) = prefix

\* getValidationRules: the entries whose key does not start with $$
getValidationRules(schema) ==
    FromEntries(SelectSeq(Entries(schema), LAMBDA e : ~StartsWith(e[1], "$$")))

\* getMetas: the entries whose key starts with $$
getMetas(schema) ==
    FromEntries(SelectSeq(Entries(schema), LAMBDA e : StartsWith(e[1], "$$")))

\* validator.getRuleFromSchema(rule).schema of fastest-validator: a string
\* shorthand names the rule's type, an array is a multi rule, an object rule
\* is kept.
getRuleFromSchema(rule) ==
    CASE rule.t = "str" -> Obj(<< <<"type", rule>> >>)
      [] rule.t = "arr" -> Obj(<< <<"type", Str("multi")>>, <<"rules", rule>> >>)
      [] OTHER -> rule

\* a ?? b
Coalesce(a, b) == IF IsUndefined(a) THEN b ELSE a

\* rule.default ? [rule.default] : undefined
ExamplesOf(rule) ==
    IF Truthy(Get(rule, "default")) THEN Arr(<<Get(rule, "default")>>) ELSE Undefined

\* mappers.getOpenApiType(value): the schema type of a JavaScript value.
getOpenApiType(value) ==
    CASE value.t = "str" -> Str("string")
      [] value.t = "num" -> Str("number")
      [] value.t = "bool" -> Str("boolean")
      [] value.t = "arr" -> Str("array")
      [] value.t = "obj" -> Str("object")
      [] OTHER -> Undefined

\* The rule kinds mapped to a string fragment with a named format.
FormatOf(type) ==
    CASE type = "currency" -> "currency"
      [] type = "email" -> "email"
      [] type = "luhn" -> "luhn"
      [] type = "mac" -> "mac"
      [] type = "url" -> "url"
      [] type = "uuid" -> "uuid"
      [] type = "objectID" -> "ObjectId"

MapperNames ==
    {"any", "array", "boolean", "class", "currency", "date", "email", "enum",
     "equal", "forbidden", "function", "luhn", "mac", "multi", "number",
     "object", "record", "string", "tuple", "url", "uuid", "objectID", "custom"}

\* enum?.[0]
FirstOf(enum) == IF IsArr(enum) /\ Len(enum.s) > 0 THEN enum.s[1] ELSE Undefined

\* if (cond) { schema[key] = v }
SetIf(schema, cond, key, v) == IF cond THEN Set(schema, key, v) ELSE schema

\* The length of a string or array rule sets both bounds, else max and min do.
SetBounds(schema, rule, maxKey, minKey) ==
    IF Truthy(Get(rule, "length"))
    THEN Set(Set(schema, maxKey, Get(rule, "length")), minKey, Get(rule, "length"))
    ELSE Set(Set(schema, maxKey, Get(rule, "max")), minKey, Get(rule, "min"))

\* mappers.string (of a rule without pattern, contains or format flag)
StringMapper(fvRule) ==
    SetIf(Set(SetBounds(Obj(<< <<"default", Get(fvRule, "default")>>,
                               <<"type", Str("string")>> >>),
                        fvRule, "maxLength", "minLength"),
              "enum", Get(fvRule, "enum")),
          Truthy(Coalesce(Get(fvRule, "default"), FirstOf(Get(fvRule, "enum")))),
          "examples",
          Arr(<<Coalesce(Get(fvRule, "default"), FirstOf(Get(fvRule, "enum")))>>))

\* rule.default ?? rule.enum?.[0] ?? rule.min ?? rule.max
NumberExample(rule) ==
    Coalesce(Get(rule, "default"),
             Coalesce(FirstOf(Get(rule, "enum")),
                      Coalesce(Get(rule, "min"), Get(rule, "max"))))

\* mappers.number
NumberMapper(rule) ==
    SetIf(SetIf(SetIf(SetIf(SetIf(SetIf(
        Obj(<< <<"type", Str("number")>>,
               <<"default", Get(rule, "default")>>,
               <<"examples", IF Truthy(NumberExample(rule))
                             THEN Arr(<<NumberExample(rule)>>) ELSE Undefined>> >>),
        Truthy(Get(rule, "positive")), "minimum", Num(0)),
        Truthy(Get(rule, "negative")), "maximum", Num(0)),
        Truthy(Get(rule, "max")), "maximum", Get(rule, "max")),
        Truthy(Get(rule, "min")), "minimum", Get(rule, "min")),
        Truthy(Get(rule, "equal")), "maximum", Get(rule, "equal")),
        Truthy(Get(rule, "equal")), "minimum", Get(rule, "equal"))

RECURSIVE getSchemaObjectFromRule(_, _, _)
RECURSIVE getSchemaObjectFromSchema(_)
RECURSIVE TypeMapper(_, _, _)

\* rules.map((rule) => getSchemaObjectFromRule(rule)).filter(Boolean)
ConvertAll(rules) ==
    SelectSeq([i \in 1..Len(rules) |-> getSchemaObjectFromRule(rules[i], Undefined, Undefined)],
              Truthy)

\* mappers.array
ArrayMapper(rule) ==
    SetBounds(Obj(<< <<"type", Str("array")>>,
                     <<"examples", ExamplesOf(rule)>>,
                     <<"uniqueItems", Get(rule, "unique")>>,
                     <<"default", Get(rule, "default")>>,
                     <<"items",
                       Coalesce(IF Truthy(Get(rule, "items"))
                                THEN getSchemaObjectFromRule(
                                         Get(rule, "items"),
                                         Obj(<< <<"enum", Get(rule, "enum")>> >>),
                                         Undefined)
                                ELSE Undefined,
                                EmptyObj)>> >>),
              rule, "maxItems", "minItems")

\* mappers.equal
EqualMapper(rule, parent) ==
    IF Truthy(Get(rule, "field")) /\ Truthy(Get(parent, Get(rule, "field").v))
    THEN getSchemaObjectFromRule(Get(parent, Get(rule, "field").v), Undefined, Undefined)
    ELSE Obj(<< <<"type", IF Truthy(Get(rule, "strict"))
                         THEN getOpenApiType(Get(rule, "value"))
                         ELSE Str("string")>>,
                <<"default", Get(rule, "default")>>,
                <<"examples", ExamplesOf(rule)>>,
                <<"enum", IF Truthy(Get(rule, "value"))
                          THEN Arr(<<Get(rule, "value")>>) ELSE Undefined>> >>)

\* mappers.multi
MultiMapper(rule) ==
    IF ~IsArr(Get(rule, "rules")) THEN Undefined
    ELSE Obj(<< <<"oneOf", Arr(ConvertAll(Get(rule, "rules").s))>>,
                <<"default", Get(rule, "default")>>,
                <<"examples", ExamplesOf(rule)>> >>)

\* mappers.object
ObjectMapper(rule) ==
    Obj(<< <<"type", Str("object")>>,
           <<"minProperties", Get(rule, "minProps")>>,
           <<"maxProperties", Get(rule, "maxProps")>>,
           <<"default", Get(rule, "default")>>,
           <<"properties",
             IF Truthy(Coalesce(Get(rule, "props"), Get(rule, "properties")))
             THEN getSchemaObjectFromSchema(
                      Coalesce(Get(rule, "props"), Get(rule, "properties")))
             ELSE Undefined>>,
           <<"examples", ExamplesOf(rule)>> >>)

\* mappers.tuple
TupleMapper(rule) ==
    SetIf(SetIf(getSchemaObjectFromRule(
                    Obj(<< <<"type", Str("array")>>,
                           <<"default", Get(rule, "default")>>,
                           <<"length", Num(2)>> >>), Undefined, Undefined),
                Truthy(Get(rule, "items")), "items",
                Obj(<< <<"oneOf", Arr(ConvertAll(Get(rule, "items").s))>> >>)),
          Truthy(Get(rule, "default")), "examples", Arr(<<Get(rule, "default")>>))

\* mappers[type](rule, parent): the fragment of one rule kind, or undefined.
TypeMapper(type, rule, parent) ==
    CASE type = "any" ->
           Obj(<< <<"default", Get(rule, "default")>>, <<"examples", ExamplesOf(rule)>> >>)
      [] type = "array" -> ArrayMapper(rule)
      [] type = "boolean" ->
           Obj(<< <<"type", Str("boolean")>>,
                  <<"default", Get(rule, "default")>>,
                  <<"examples", Coalesce(Get(rule, "default"),
                                         Arr(<<Bool(TRUE), Bool(FALSE)>>))>> >>)
      [] type \in {"class", "forbidden", "function", "custom"} -> Undefined
      [] type = "date" ->
           IF ~Truthy(Get(rule, "convert")) THEN Undefined
           ELSE Obj(<< <<"type", Str("string")>>,
                       <<"default", Get(rule, "default")>>,
                       <<"format", Str("date-time")>>,
                       <<"examples", Arr(<<Str("<iso date>"), Str("<epoch>")>>)>> >>)
      [] type = "enum" ->
           getSchemaObjectFromRule(
               Obj(<< <<"type", Str("string")>>, <<"enum", Get(rule, "values")>> >>),
               Undefined, Undefined)
      [] type = "equal" -> EqualMapper(rule, parent)
      [] type = "multi" -> MultiMapper(rule)
      [] type = "number" -> NumberMapper(rule)
      [] type = "object" -> ObjectMapper(rule)
      [] type = "record" ->
           Obj(<< <<"type", Str("object")>>,
                  <<"default", Get(rule, "default")>>,
                  <<"additionalProperties",
                    IF Truthy(Get(rule, "value"))
                    THEN getSchemaObjectFromRule(Get(rule, "value"), Undefined, Undefined)
                    ELSE Undefined>> >>)
      [] type = "tuple" -> TupleMapper(rule)
      [] type \in {"currency", "email", "luhn", "mac", "url", "uuid", "objectID"} ->
           Obj(<< <<"type", Str("string")>>,
                  <<"format", Str(FormatOf(type))>>,
                  <<"default", Get(rule, "default")>> >>)
      [] OTHER -> StringMapper(rule)

\* The mapper of a rule: mappers[rule.type] || mappers.string
MapperOf(type) == IF type.t = "str" /\ type.v \in MapperNames THEN type.v ELSE "string"

\* The marker fields getSchemaObjectFromRule takes from the $$oa of the rule.
ExtensionsOf(pRule) ==
    IF ~IsObj(pRule) \/ ~Truthy(Get(pRule, "$$oa")) THEN <<>>
    ELSE << <<EOAExtensions.description, Get(Get(pRule, "$$oa"), "description")>>,
            <<EOAExtensions.summary, Get(Get(pRule, "$$oa"), "summary")>>,
            <<EOAExtensions.deprecated, Get(Get(pRule, "$$oa"), "deprecated")>> >>

\* The end of getSchemaObjectFromRule: no fragment, or the fragment with its
\* marker fields.
MarkSchema(schema, rule, extensions) ==
    IF ~Truthy(schema) THEN Undefined
    ELSE SetAll(SetIf(schema, Truthy(Get(rule, "optional")),
                      EOAExtensions.optional, Bool(TRUE)),
                extensions)

\* getSchemaObjectFromRule, from the rule merged with the parent's properties.
ConvertRule(pRule, rule, parentSchema) ==
    MarkSchema(TypeMapper(MapperOf(Get(rule, "type")), rule, parentSchema),
               rule, ExtensionsOf(pRule))

\* getSchemaObjectFromRule(pRule, parentProperties, parentSchema)
getSchemaObjectFromRule(pRule, parentProperties, parentSchema) ==
    ConvertRule(pRule, Spread(parentProperties, getRuleFromSchema(pRule)), parentSchema)

\* The [key, fragment] pairs of getSchemaObjectFromSchema.
ConvertEntries(rules, schema) ==
    [i \in 1..Len(rules) |->
        <<rules[i][1], getSchemaObjectFromRule(rules[i][2], Undefined, schema)>>]

\* getSchemaObjectFromSchema: one entry per rule of the schema; the entry of
\* a rule without fragment holds undefined (a [key, undefined] pair is truthy,
\* so filter(Boolean) keeps it).
getSchemaObjectFromSchema(schema) ==
    FromEntries(ConvertEntries(Entries(getValidationRules(schema)), schema))

\* getSchemaObjectFromRootSchema; the second component tells whether it threw.
getSchemaObjectFromRootSchema(schema) ==
    IF Get(schema, "$$root") # Bool(TRUE) THEN [threw |-> TRUE, value |-> Undefined]
    ELSE [threw |-> FALSE,
          value |-> getSchemaObjectFromRule(Del(schema, "$$root"), Undefined, Undefined)]


(***************************************************************************)
(* The component store (this.components) and the registration of objects   *)
(*                                                                         *)
(* The operations that write the store or the log, or that can throw, take *)
(* and return a context [schemas, log, error]: schemas is                  *)
(* this.components.schemas, log the logger's warnings in order, error the  *)
(* exception that ended the call ("none" while it runs).                   *)
(***************************************************************************)
multiOAProperties == <<"oneOf", "anyOf", "allOf">>

NoError == "none"

Throw(ctx, error) == [ctx EXCEPT !.error = error]

Warn(ctx, warning) == [ctx EXCEPT !.log = Append(@, warning)]

RefTo(schemeName) == "#/components/schemas/" \o schemeName

\* extractSystemParams
extractSystemParams(obj) ==
    [optional |-> Get(obj, EOAExtensions.optional),
     description |-> Get(obj, EOAExtensions.description),
     summary |-> Get(obj, EOAExtensions.summary),
     deprecated |-> Get(obj, EOAExtensions.deprecated)]

RECURSIVE createSchemaComponentFromObject(_, _, _, _)
RECURSIVE createSchemaPartFromRule(_, _, _)
RECURSIVE CreateProperties(_, _, _, _, _)
RECURSIVE CreateMembers(_, _, _, _, _)
RECURSIVE CreateCompositions(_, _, _, _, _)

\* One field of the loop below, required whatever its rule holds.
AddPropertyRequired(part, schemeName, entries, required, properties) ==
    CreateProperties(part.ctx, schemeName, Tail(entries),
                     Append(required, Str(Head(entries)[1])),
                     Append(properties, <<Head(entries)[1], part.value>>))

\* One field of the loop below, once its part is made: the field is required
\* unless its rule holds the optional marker.
AddProperty(part, schemeName, entries, required, properties) ==
    CreateProperties(part.ctx, schemeName, Tail(entries),
                     IF Get(Head(entries)[2], EOAExtensions.optional) # Bool(TRUE)
                     THEN Append(required, Str(Head(entries)[1])) ELSE required,
                     Append(properties, <<Head(entries)[1], part.value>>))

\* The loop of _createSchemaComponentFromObject over the fields of obj:
\* reading the optional marker of a field that holds undefined throws.
CreateProperties(ctx, schemeName, entries, required, properties) ==
    IF entries = <<>> \/ ctx.error # NoError
    THEN [ctx |-> ctx, required |-> required, properties |-> properties]
    ELSE IF ~IsObj(Head(entries)[2])
    THEN [ctx |-> Throw(ctx, "TypeError"), required |-> required, properties |-> properties]
    ELSE AddProperty(createSchemaPartFromRule(ctx, schemeName \o "." \o Head(entries)[1],
                                              Head(entries)[2]),
                     schemeName, entries, required, properties)

\* A registration that never warns.
WarnNever(ctx, schemeName) == ctx

\* if (this.components.schemas[schemeName]) this.logger.warn(...)
WarnIfStored(ctx, schemeName) ==
    IF Truthy(Get(ctx.schemas, schemeName))
    THEN Warn(ctx, [kind |-> "schema overwrite", name |-> schemeName])
    ELSE ctx

\* this.components.schemas[schemeName] = {...}, and the reference returned.
StoreComponent(done, schemeName, customProperties) ==
    IF done.ctx.error # NoError THEN [ctx |-> done.ctx, value |-> Undefined]
    ELSE [ctx |-> [WarnIfStored(done.ctx, schemeName) EXCEPT
                      !.schemas =
                          Set(@, schemeName,
                              Obj(<< <<"type", Str("object")>>,
                                     <<"properties", FromEntries(done.properties)>>,
                                     <<"required", IF Len(done.required) > 0
                                                   THEN Arr(done.required) ELSE Undefined>>,
                                     <<"default", Get(customProperties, "default")>> >>))],
          value |-> Obj(<< <<"$ref", Str(RefTo(schemeName))>> >>)]

\* _createSchemaComponentFromObject(schemeName, obj, customProperties)
createSchemaComponentFromObject(ctx, schemeName, obj, customProperties) ==
    StoreComponent(CreateProperties(ctx, schemeName, Entries(obj), <<>>, <<>>),
                   schemeName, customProperties)

\* The members of one composition, each numbered by its place.
CreateMembersByPosition(ctx, nextSchemeName, members, i, out) ==
    IF members = <<>> \/ ctx.error # NoError
    THEN [ctx |-> ctx, i |-> i, value |-> out]
    ELSE IF Get(Head(members), "type") # Str("object")
    THEN CreateMembers(ctx, nextSchemeName, Tail(members), i + 1, Append(out, Head(members)))
    ELSE CreateMembers(createSchemaPartFromRule(ctx, nextSchemeName \o "." \o ToString(i),
                                                Head(members)).ctx,
                       nextSchemeName, Tail(members), i + 1,
                       Append(out, createSchemaPartFromRule(
                                       ctx, nextSchemeName \o "." \o ToString(i),
                                       Head(members)).value))

\* An object-typed member of a composition, once converted.
AddMember(part, nextSchemeName, members, i, out) ==
    CreateMembers(part.ctx, nextSchemeName, Tail(members), i + 1, Append(out, part.value))

\* The members of one composition: an object-typed member is converted under
\* the next free number, any other member is kept.
CreateMembers(ctx, nextSchemeName, members, i, out) ==
    IF members = <<>> \/ ctx.error # NoError
    THEN [ctx |-> ctx, i |-> i, value |-> out]
    ELSE IF Get(Head(members), "type") # Str("object")
    THEN CreateMembers(ctx, nextSchemeName, Tail(members), i, Append(out, Head(members)))
    ELSE AddMember(createSchemaPartFromRule(ctx, nextSchemeName \o "." \o ToString(i),
                                            Head(members)),
                   nextSchemeName, members, i, out)

\* One composition of the rule, once its members are converted.
AddComposition(done, nextSchemeName, rule, properties) ==
    CreateCompositions(done.ctx, nextSchemeName,
                       Set(rule, Head(properties), Arr(done.value)),
                       Tail(properties), done.i)

\* multiOAProperties.forEach of _createSchemaPartFromRule; i is shared by
\* the compositions of the rule.
CreateCompositions(ctx, nextSchemeName, rule, properties, i) ==
    IF properties = <<>> \/ ctx.error # NoError THEN [ctx |-> ctx, value |-> rule]
    ELSE IF ~Truthy(Get(rule, Head(properties)))
    THEN CreateCompositions(ctx, nextSchemeName, rule, Tail(properties), i)
    ELSE AddComposition(CreateMembers(ctx, nextSchemeName,
                                      Get(rule, Head(properties)).s, i, <<>>),
                        nextSchemeName, rule, properties)

\* rule.description, rule.title and rule.deprecated take the marker fields.
WithSystemParams(rule, systemParams) ==
    Set(Set(Set(rule, "description", systemParams.description),
            "title", systemParams.summary),
        "deprecated", systemParams.deprecated)

\* The part of an object rule whose component leaves the store again.
ReferencePartUnstored(child, rule) ==
    [ctx |-> IF child.ctx.error # NoError THEN child.ctx
             ELSE [child.ctx EXCEPT
                      !.schemas = Del(@, SubSeq(Get(child.value, "$ref").v, Len(RefTo("")) + 1,
                                                Len(Get(child.value, "$ref").v)))],
     value |-> Spread(Obj(<< <<"summary", Get(rule, "title")>>,
                             <<"deprecated", Get(rule, "deprecated")>>,
                             <<"description", Get(rule, "description")>> >>),
                      child.value)]

\* The part of an object rule: the reference to its component.
ReferencePart(child, rule) ==
    [ctx |-> child.ctx,
     value |-> Spread(Obj(<< <<"summary", Get(rule, "title")>>,
                             <<"deprecated", Get(rule, "deprecated")>>,
                             <<"description", Get(rule, "description")>> >>),
                      child.value)]

\* The part of an array rule: the rule with the part of its items.
ItemsPart(items, rule) == [ctx |-> items.ctx, value |-> Set(rule, "items", items.value)]

\* _createSchemaPartFromRule, once the rule holds its system parameters.
PartOfRule(ctx, nextSchemeName, rule) ==
    IF Get(rule, "type") = Str("object") /\ Truthy(Get(rule, "properties"))
    THEN ReferencePart(createSchemaComponentFromObject(
                           ctx, nextSchemeName, Get(rule, "properties"),
                           Obj(<< <<"default", Get(rule, "default")>> >>)),
                       rule)
    ELSE IF Get(rule, "type") = Str("array") /\ Truthy(Get(rule, "items"))
    THEN ItemsPart(createSchemaPartFromRule(ctx, nextSchemeName, Get(rule, "items")), rule)
    ELSE IF \E i \in 1..Len(multiOAProperties) : Truthy(Get(rule, multiOAProperties[i]))
    THEN CreateCompositions(ctx, nextSchemeName, rule, multiOAProperties, 0)
    ELSE [ctx |-> ctx, value |-> rule]

\* _createSchemaPartFromRule(nextSchemeName, rule)
createSchemaPartFromRule(ctx, nextSchemeName, pRule) ==
    PartOfRule(ctx, nextSchemeName, WithSystemParams(pRule, extractSystemParams(pRule)))


(***************************************************************************)
(* The parameter extractor                                                 *)
(*                                                                         *)
(* A route (Alias) is a record: fullPath, methods (the methods of          *)
(* getPaths(), in order), action (the bound action's name or undefined),   *)
(* params (actionSchema.params), type, openapi (the alias' explicit        *)
(* overrides), server (route.apiService.settings.openapi.server),          *)
(* bodyParsers, defaultResponseContentType, filesLimit, fileFieldName,     *)
(* joker, and merged (what OpenApiMerger.merge yields for it).             *)
(***************************************************************************)
ALLOWING_BODY_METHODS == {"put", "post", "patch"}

DEFAULT_CONTENT_TYPE == "application/json"

DEFAULT_MULTI_PART_FIELD_NAME == "file"

BODY_PARSERS_CONTENT_TYPE(parser) ==
    CASE parser = "json" -> <<"application/json">>
      [] parser = "urlencoded" -> <<"application/x-www-form-urlencoded">>
      [] parser = "text" -> <<"text/plain">>
      [] parser = "multipart" -> <<"multipart/form-data">>
      [] parser = "stream" -> <<"application/octet-stream">>
      [] OTHER -> <<>>

\* isReferenceObject
isReferenceObject(component) == Truthy(Get(component, "$ref"))

\* getComponentByRef: the stored component a reference path names, or
\* undefined when the path is not #/components/schemas/<name>.
getComponentByRef(ctx, path) ==
    LET prefix == "#/components/schemas/"
        name == SubSeq(path, Len(prefix) + 1, Len(path))
    IN IF ~StartsWith(path, prefix) \/ name = "" \/ IndexOf(name, "/", 1) # 0
       THEN Undefined
       ELSE Get(ctx.schemas, name)

\* getComponent: the fragment itself, or the stored component it refers to.
getComponent(ctx, component) ==
    IF ~isReferenceObject(component) THEN [ctx |-> ctx, value |-> component]
    ELSE LET refComponent == getComponentByRef(ctx, Get(component, "$ref").v)
         IN IF ~Truthy(refComponent)
            THEN [ctx |-> Throw(ctx, "fail to get component"), value |-> Undefined]
            ELSE [ctx |-> ctx, value |-> refComponent]

\* extractParamsFromUrl
extractParamsFromUrl(url) ==
    LET names == matchAll(url, 1)
    IN [i \in 1..Len(names) |->
          Obj(<< <<"name", Str(names[i])>>,
                 <<"in", Str("path")>>,
                 <<"required", Bool(TRUE)>>,
                 <<"schema", Obj(<< <<"type", Str("string")>> >>)>> >>)]

\* A placement by the method alone.
getParametersByMethod(method, params, body) ==
    IF (method \in ALLOWING_BODY_METHODS) = body THEN getValidationRules(params)
    ELSE EmptyObj

\* getParameters(method, params, body): the rules placed in the body (body
\* = TRUE) or in the query (body = FALSE).
getParameters(method, params, body) ==
    LET defaultInBody == method \in ALLOWING_BODY_METHODS
        InBody(param) ==
            LET openApiInParameter == Get(Get(param, "$$oa"), "in")
            IN IF Truthy(openApiInParameter)
               THEN openApiInParameter = Str("body")
               ELSE defaultInBody
    IN FromEntries(SelectSeq(Entries(getValidationRules(params)),
                             LAMBDA e : InBody(e[2]) = body))

\* createRequestBodyFromParams(rootSchemeName, obj, exclude)
createRequestBodyFromParams(ctx, rootSchemeName, obj, exclude) ==
    IF Get(obj, "$$root") = Bool(TRUE)
    THEN [ctx |-> ctx, value |-> getSchemaObjectFromRootSchema(obj).value]
    ELSE createSchemaComponentFromObject(
             ctx, rootSchemeName,
             FromEntries(SelectSeq(Entries(getSchemaObjectFromSchema(obj)),
                                   LAMBDA e : ~Includes(exclude, e[1]) /\ Truthy(e[2]))),
             EmptyObj)

BinarySchema == Obj(<< <<"type", Str("string")>>, <<"format", Str("binary")>> >>)

\* The file field as an array of binary values, whatever the limit.
FileSchemaOfArray(fileField, filesLimit) ==
    Obj(<< <<"type", Str("object")>>,
           <<"properties",
             Obj(<< <<fileField,
                      Obj(<< <<"type", Str("array")>>,
                             <<"items", BinarySchema>>,
                             <<"maxItems", filesLimit>> >>)>> >>)>>,
           <<"required", Arr(<<Str(fileField)>>)>> >>)

\* The first member of the allOf of an upload body: the file field.
FileSchema(fileField, filesLimit) ==
    Obj(<< <<"type", Str("object")>>,
           <<"properties",
             Obj(<< <<fileField,
                      IF filesLimit = Num(1) THEN BinarySchema
                      ELSE Obj(<< <<"type", Str("array")>>,
                                  <<"items", BinarySchema>>,
                                  <<"maxItems", filesLimit>> >>)>> >>)>>,
           <<"required", Arr(<<Str(fileField)>>)>> >>)

\* The request body generateFileUploadBody returns around a schema.
UploadBody(alias, schema) ==
    Obj(<< <<"required", Bool(TRUE)>>,
           <<"content", Obj(<< <<BODY_PARSERS_CONTENT_TYPE(alias.type.v)[1],
                                 Obj(<< <<"schema", schema>> >>)>> >>)>> >>)

\* The multipart body, once the schema of the action's params is made.
MultipartBody(params, alias, fileSchema) ==
    IF params.ctx.error # NoError THEN [ctx |-> params.ctx, value |-> Undefined]
    ELSE [ctx |-> params.ctx,
          value |-> UploadBody(alias,
                        Obj(<< <<"allOf", Arr(IF Truthy(params.value)
                                              THEN <<fileSchema, params.value>>
                                              ELSE <<fileSchema>>)>> >>))]

\* generateFileUploadBody(alias, excluded)
generateFileUploadBody(ctx, alias, excluded) ==
    IF alias.type = Str("stream") THEN [ctx |-> ctx, value |-> UploadBody(alias, BinarySchema)]
    ELSE IF Get(alias.params, "$$root") = Bool(TRUE)
    THEN [ctx |-> Throw(ctx, "$$root parameters is not supported on multipart"),
          value |-> Undefined]
    ELSE MultipartBody(
             IF Truthy(alias.action) /\ Truthy(alias.params)
             THEN createRequestBodyFromParams(ctx, alias.action.v, alias.params, excluded)
             ELSE [ctx |-> ctx, value |-> Undefined],
             alias,
             FileSchema(Coalesce(alias.fileFieldName, Str(DEFAULT_MULTI_PART_FIELD_NAME)).v,
                        alias.filesLimit))

\* The parameter object with required = false for an optional rule.
SchemaParameterFlagged(k, schema, component) ==
    Obj(<< <<"name", Str(k)>>,
           <<"in", Str("query")>>,
           <<"style", IF Get(schema, "type") = Str("object")
                      THEN Str("deepObject") ELSE Undefined>>,
           <<"explode", IF Get(schema, "type") = Str("object")
                        THEN Bool(TRUE) ELSE Undefined>>,
           <<"required", Bool(Get(component, EOAExtensions.optional) # Bool(TRUE))>>,
           <<"schema", schema>> >>)

\* The parameter object of one query-placed rule; required is true or
\* undefined.
SchemaParameter(k, schema, component) ==
    Obj(<< <<"name", Str(k)>>,
           <<"in", Str("query")>>,
           <<"style", IF Get(schema, "type") = Str("object")
                      THEN Str("deepObject") ELSE Undefined>>,
           <<"explode", IF Get(schema, "type") = Str("object")
                        THEN Bool(TRUE) ELSE Undefined>>,
           <<"required", IF Get(component, EOAExtensions.optional) # Bool(TRUE)
                         THEN Bool(TRUE) ELSE Undefined>>,
           <<"schema", schema>> >>)

\* The parameter joins the list, or, named like a path parameter, takes
\* its place (in the path, required).
PlaceParameter(parameters, excluded, k, schemaParameter) ==
    IF ~Includes(excluded, k) THEN Append(parameters, schemaParameter)
    ELSE [i \in 1..Len(parameters) |->
            IF Get(parameters[i], "name") # Str(k) THEN parameters[i]
            ELSE Set(Set(schemaParameter, "in", Str("path")), "required", Bool(TRUE))]

RECURSIVE QueryParameters(_, _, _, _)

\* One rule of the query loop, once its component is resolved.
QueryParameterOf(ctx, entries, parameters, excluded, schema, component) ==
    IF component.ctx.error # NoError THEN [ctx |-> component.ctx, value |-> parameters]
    ELSE QueryParameters(ctx, Tail(entries),
                         PlaceParameter(parameters, excluded, Head(entries)[1],
                                        SchemaParameter(Head(entries)[1], schema,
                                                        component.value)),
                         excluded)

\* One rule of the query loop, once converted: a rule without fragment adds
\* nothing.
QueryParameter(ctx, entries, parameters, excluded, schema) ==
    IF ~Truthy(schema) THEN QueryParameters(ctx, Tail(entries), parameters, excluded)
    ELSE QueryParameterOf(ctx, entries, parameters, excluded, schema,
                          getComponent(ctx, schema))

\* The query loop of extractParameters over the query-placed rules.
QueryParameters(ctx, entries, parameters, excluded) ==
    IF entries = <<>> \/ ctx.error # NoError THEN [ctx |-> ctx, value |-> parameters]
    ELSE QueryParameter(ctx, entries, parameters, excluded,
                        getSchemaObjectFromRule(Head(entries)[2], Undefined, Undefined))

\* flatMap(([parser]) => BODY_PARSERS_CONTENT_TYPE[parser] ?? [])
RECURSIVE FlatMapParsers(_)
FlatMapParsers(parsers) ==
    IF parsers = <<>> THEN <<>>
    ELSE BODY_PARSERS_CONTENT_TYPE(Head(parsers)[1]) \o FlatMapParsers(Tail(parsers))

\* (tmpContentTypes?.length ? tmpContentTypes : [defaultResponseContentType])
\* ?? [DEFAULT_CONTENT_TYPE]: the list on the left of ?? is never nullish.
ContentTypesOr(tmpContentTypes, defaultResponseContentType) ==
    IF Len(tmpContentTypes) > 0 THEN tmpContentTypes
    ELSE <<IF IsUndefined(defaultResponseContentType) THEN "undefined"
           ELSE defaultResponseContentType.v>>

\* The content types of a generated body.
ContentTypes(alias) ==
    ContentTypesOr(FlatMapParsers(SelectSeq(Entries(Coalesce(alias.bodyParsers, EmptyObj)),
                                            LAMBDA e : Truthy(e[2]))),
                   alias.defaultResponseContentType)

\* required of a generated body: whether the referenced component lists
\* required fields.
BodyRequired(ctx, schema) ==
    /\ isReferenceObject(schema)
    /\ Len(Coalesce(Get(getComponentByRef(ctx, Get(schema, "$ref").v), "required"),
                    Arr(<<>>)).s) > 0

\* Object.fromEntries(contentTypes.map((contentType) => [contentType, { schema }]))
ContentOf(contentTypes, schema) ==
    FromEntries([i \in 1..Len(contentTypes) |->
                   <<contentTypes[i], Obj(<< <<"schema", schema>> >>)>>])

\* The generated request body, once the schema of the body fields is made.
RequestBodyOf(created, alias, openApiMetas) ==
    IF created.ctx.error # NoError THEN [ctx |-> created.ctx, value |-> Undefined]
    ELSE IF /\ isReferenceObject(created.value)
            /\ ~Truthy(getComponentByRef(created.ctx, Get(created.value, "$ref").v))
    THEN [ctx |-> Throw(created.ctx, "fail to get schema from path"), value |-> Undefined]
    ELSE [ctx |-> created.ctx,
          value |-> Obj(<< <<"description", Get(openApiMetas, "description")>>,
                           <<"summary", Get(openApiMetas, "summary")>>,
                           <<"required", Bool(BodyRequired(created.ctx, created.value))>>,
                           <<"content", ContentOf(ContentTypes(alias), created.value)>> >>)]

\* The body part of extractParameters, when the route has no request body
\* override.
GeneratedBody(ctx, method, alias, actionParams, excluded) ==
    IF ~Truthy(alias.action)
    THEN [ctx |-> Throw(ctx, "something is wrong"), value |-> Undefined]
    ELSE IF Size(getParameters(method, actionParams, TRUE)) = 0
    THEN [ctx |-> ctx, value |-> Undefined]
    ELSE RequestBodyOf(
             createRequestBodyFromParams(
                 ctx, alias.action.v,
                 Spread(getMetas(actionParams), getParameters(method, actionParams, TRUE)),
                 excluded),
             alias,
             Coalesce(Get(getMetas(actionParams), "$$oa"), EmptyObj))

\* The path parameters of a route: the overrides of the alias, placed in
\* the path, or one per placeholder of the path.
PathParameters(path, alias) ==
    IF Truthy(Get(alias.openapi, "pathParameters"))
    THEN [i \in 1..Len(Get(alias.openapi, "pathParameters").s) |->
            Set(Get(alias.openapi, "pathParameters").s[i], "in", Str("path"))]
    ELSE extractParamsFromUrl(path)

\* pathParameters.map((params) => params.name)
NamesOf(pathParameters) ==
    [i \in 1..Len(pathParameters) |-> Get(pathParameters[i], "name").v]

\* The query part of extractParameters: the query loop, or the overrides of
\* the alias, placed in the query, in place of every parameter.
QueryPart(ctx, method, alias, pathParameters, excluded) ==
    IF ~Truthy(Get(alias.openapi, "queryParameters"))
    THEN QueryParameters(ctx,
                         Entries(getParameters(method, Coalesce(alias.params, EmptyObj),
                                               FALSE)),
                         pathParameters, excluded)
    ELSE [ctx |-> ctx,
          value |-> [i \in 1..Len(Get(alias.openapi, "queryParameters").s) |->
                       Set(Get(alias.openapi, "queryParameters").s[i], "in", Str("query"))]]

\* The body part of extractParameters.
BodyPart(ctx, method, alias, excluded) ==
    IF ~Truthy(Get(alias.openapi, "requestBody"))
    THEN GeneratedBody(ctx, method, alias, Coalesce(alias.params, EmptyObj), excluded)
    ELSE [ctx |-> ctx, value |-> Get(alias.openapi, "requestBody")]

\* result: the parameters and the request body.
Extracted(body, parameters) ==
    [ctx |-> body.ctx, value |-> [parameters |-> parameters, requestBody |-> body.value]]

\* The body follows the query part unless that one threw.
ExtractBody(query, method, alias, excluded) ==
    IF query.ctx.error # NoError
    THEN [ctx |-> query.ctx,
          value |-> [parameters |-> query.value, requestBody |-> Undefined]]
    ELSE Extracted(BodyPart(query.ctx, method, alias, excluded), query.value)

\* extractParameters, once the path parameters and their names are known.
ExtractFrom(ctx, method, alias, pathParameters, excluded) ==
    IF alias.type \in {Str("multipart"), Str("stream")}
    THEN Extracted(IF Truthy(Get(alias.openapi, "requestBody"))
                   THEN [ctx |-> ctx, value |-> Get(alias.openapi, "requestBody")]
                   ELSE generateFileUploadBody(ctx, alias, excluded),
                   pathParameters)
    ELSE IF \/ Truthy(Get(alias.openapi, "queryParameters"))
            \/ Truthy(Get(alias.openapi, "requestBody"))
            \/ (Truthy(alias.params) /\ Truthy(alias.action))
    THEN ExtractBody(QueryPart(ctx, method, alias, pathParameters, excluded),
                     method, alias, excluded)
    ELSE [ctx |-> ctx, value |-> [parameters |-> pathParameters, requestBody |-> Undefined]]

\* extractParameters(method, path, alias): [parameters, requestBody]
extractParameters(ctx, method, path, alias) ==
    ExtractFrom(ctx, method, alias, PathParameters(path, alias),
                NamesOf(PathParameters(path, alias)))


(***************************************************************************)
(* The document assembler: helpers of generate()                           *)
(***************************************************************************)
UNRESOLVED_ACTION_NAME == "unknown-action"

ComponentSections ==
    <<"schemas", "responses", "parameters", "examples", "requestBodies",
      "headers", "securitySchemes", "links", "callbacks", "pathItems">>

\* The component store of a new generator: every section empty.
EmptyComponents == FromEntries([i \in 1..Len(ComponentSections) |->
                                  <<ComponentSections[i], EmptyObj>>])

\* cleanComponents: every section without its entries set to false.
cleanComponents(components) ==
    LET sections == Entries(Coalesce(components, EmptyObj))
    IN FromEntries([i \in 1..Len(sections) |->
          <<sections[i][1],
            FromEntries(SelectSeq(Entries(sections[i][2]),
                                  LAMBDA e : e[2] # Bool(FALSE)))>>])

\* mergeComponents(c1, c2)
RECURSIVE MergeSections(_, _, _, _)
MergeSections(acc, c1, c2, keys) ==
    IF keys = <<>> THEN acc
    ELSE LET key == Head(keys)
         IN MergeSections(IF Size(Get(c2, key)) = 0 THEN acc
                          ELSE Set(acc, key, Spread(Get(c1, key), Get(c2, key))),
                          c1, c2, Tail(keys))

\* A merge in which the entries of c1 win over those of c2.
mergeComponentsKeepingFirst(c1, c2) ==
    MergeSections(c1, c2, c1, SelectSeq(c2.k, LAMBDA key : Size(Get(c2, key)) # 0))

mergeComponents(c1, c2) == MergeSections(c1, c1, c2, c2.k)

\* The server joins the list of the document whatever the list holds.
addServerToDocumentAlways(document, server) ==
    Set(document, "servers",
        Arr(Append(Coalesce(Get(document, "servers"), Arr(<<>>)).s, server)))

\* addServerToDocument(document, server)
addServerToDocument(document, server) ==
    LET servers == Coalesce(Get(document, "servers"), Arr(<<>>))
    IN IF \E i \in 1..Len(servers.s) : Get(servers.s[i], "url") = Get(server, "url")
       THEN Set(document, "servers", servers)
       ELSE Set(document, "servers", Arr(Append(servers.s, server)))

\* Array.from(new Set(tags)): the first occurrence of each element.
RECURSIVE Uniq(_, _)
Uniq(tags, seen) ==
    IF tags = <<>> THEN seen
    ELSE Uniq(Tail(tags), IF Includes(seen, Head(tags)) THEN seen ELSE Append(seen, Head(tags)))

\* handleTags(document, tagsMap, tags): the document with the tags' objects
\* added to its global list; the tags of the operation are Uniq(tags).
RECURSIVE AddTags(_, _, _)
AddTags(documentTags, tagsMap, uniqTags) ==
    IF uniqTags = <<>> THEN documentTags
    ELSE LET tag == Head(uniqTags)
             tagObject == Get(tagsMap, tag.v)
         IN AddTags(IF (~\E i \in 1..Len(documentTags) : Get(documentTags[i], "name") = tag)
                       /\ Truthy(tagObject)
                    THEN Append(documentTags, tagObject) ELSE documentTags,
                    tagsMap, Tail(uniqTags))

handleTags(document, tagsMap, tags) ==
    LET uniqTags == Uniq(Coalesce(tags, Arr(<<>>)).s, <<>>)
    IN [document |-> Set(document, "tags",
                         Arr(AddTags(Coalesce(Get(document, "tags"), Arr(<<>>)).s,
                                     tagsMap, uniqTags))),
        tags |-> Arr(uniqTags)]

RECURSIVE DelAll(_, _)
DelAll(o, keys) == IF keys = <<>> THEN o ELSE DelAll(Del(o, Head(keys)), Tail(keys))

\* A removal that goes through objects and stops at arrays.
RECURSIVE removeExtensionsOfObjects(_)
removeExtensionsOfObjects(obj) ==
    IF IsObj(obj)
    THEN LET entries == Entries(DelAll(obj, ExtensionKeys))
         IN FromEntries([i \in 1..Len(entries) |->
                           <<entries[i][1], removeExtensionsOfObjects(entries[i][2])>>])
    ELSE obj

\* removeExtensions: the value without the marker fields, at every depth.
RECURSIVE removeExtensions(_)

removeExtensions(obj) ==
    CASE IsArr(obj) -> Arr([i \in 1..Len(obj.s) |-> removeExtensions(obj.s[i])])
      [] IsObj(obj) ->
           LET entries == Entries(DelAll(obj, ExtensionKeys))
           IN FromEntries([i \in 1..Len(entries) |->
                             <<entries[i][1], removeExtensions(entries[i][2])>>])
      [] OTHER -> obj

\* getAlphabeticSorter(key) and Array.sort: the <<key, element>> pairs in
\* ascending order of their keys, by code unit. An element goes after the
\* elements whose key equals its own (Array.sort is stable).
RECURSIVE InsertSorted(_, _)
InsertSorted(sorted, x) ==
    IF sorted = <<>> THEN <<x>>
    ELSE IF StrLess(x[1], Head(sorted)[1]) THEN <<x>> \o sorted
    ELSE <<Head(sorted)>> \o InsertSorted(Tail(sorted), x)

RECURSIVE SortByKey(_)
SortByKey(pairs) ==
    IF pairs = <<>> THEN <<>>
    ELSE InsertSorted(SortByKey(SubSeq(pairs, 1, Len(pairs) - 1)), pairs[Len(pairs)])


(***************************************************************************)
(* The routes and base documents the model is checked with                 *)
(***************************************************************************)
Rule(type) == Obj(<< <<"type", Str(type)>> >>)

Optional(rule) == Set(rule, "optional", Bool(TRUE))

\* rule.$$oa = { description } / { in }
Described(rule, text) == Set(rule, "$$oa", Set(Coalesce(Get(rule, "$$oa"), EmptyObj),
                                              "description", Str(text)))

PlacedIn(rule, where) == Set(rule, "$$oa", Set(Coalesce(Get(rule, "$$oa"), EmptyObj),
                                              "in", Str(where)))

ObjectRule(props) == Set(Rule("object"), "props", Obj(props))

ArrayRule(items) == Set(Rule("array"), "items", items)

MultiRule(rules) == Set(Rule("multi"), "rules", Arr(rules))

EqualRule(field) == Set(Rule("equal"), "field", Str(field))

Server(url) == Obj(<< <<"url", Str(url)>> >>)

\* What OpenApiMerger.merge returns for a route with these settings.
Merged(summary, tags) ==
    Obj(<< <<"summary", Str(summary)>>,
           <<"tags", Arr([i \in 1..Len(tags) |-> Str(tags[i])])>>,
           <<"responses", Obj(<< <<"200", Obj(<< <<"description", Str(summary)>> >>)>> >>)>> >>)

TagDef(name, text) == Obj(<< <<"name", Str(name)>>, <<"description", Str(text)>> >>)

DefaultAlias ==
    [fullPath |-> "/", methods |-> <<"get">>, action |-> Undefined,
     params |-> Undefined, type |-> Undefined, openapi |-> Undefined,
     actionOpenapi |-> Undefined, server |-> Undefined, bodyParsers |-> Undefined,
     defaultResponseContentType |-> Str(DEFAULT_CONTENT_TYPE),
     filesLimit |-> Undefined, fileFieldName |-> Undefined,
     joker |-> FALSE, autoAliases |-> FALSE,
     merged |-> EmptyObj, tagDefs |-> <<>>]

\* GET /a of action s.x on server one: an optional, described query field
\* and a forbidden one.
GetA ==
    [DefaultAlias EXCEPT
       !.fullPath = "/a", !.action = Str("s.x"), !.server = Server("one"),
       !.params = Obj(<< <<"q", Described(Optional(Rule("string")), "the query")>>,
                         <<"f", Rule("forbidden")>> >>),
       !.merged = Merged("x", <<"t1">>), !.tagDefs = <<TagDef("t1", "first")>>]

\* The same route as GetA, served on server two.
GetAOnTwo == [GetA EXCEPT !.server = Server("two")]

\* GET /a of another action, with another definition, on server two.
GetAOther ==
    [DefaultAlias EXCEPT
       !.fullPath = "/a", !.action = Str("s.y"), !.server = Server("two"),
       !.params = Obj(<< <<"n", Rule("number")>> >>),
       !.merged = Merged("y", <<"t2">>), !.tagDefs = <<TagDef("t2", "second")>>]

\* GET /a of a third action, on no server: a joker route whose action
\* describes itself.
GetANoServer ==
    [DefaultAlias EXCEPT
       !.fullPath = "/a", !.action = Str("s.z"),
       !.joker = TRUE,
       !.actionOpenapi = Obj(<< <<"description", Str("z")>> >>),
       !.params = Obj(<< <<"q", Rule("string")>> >>),
       !.merged = Merged("z", <<"t1">>), !.tagDefs = <<TagDef("t1", "again")>>]

\* POST /b/:i of action s.p: nested object, array of objects, a field moved
\* to the query, a forbidden field.
PostB ==
    [DefaultAlias EXCEPT
       !.fullPath = "/b/:i", !.methods = <<"post">>, !.action = Str("s.p"),
       !.bodyParsers = Obj(<< <<"json", Bool(TRUE)>> >>),
       !.params =
           Obj(<< <<"n", Rule("string")>>,
                  <<"o", Optional(ObjectRule(
                            << <<"d", Described(Optional(Rule("number")), "depth")>> >>))>>,
                  <<"l", ArrayRule(ObjectRule(<< <<"e", Optional(Rule("string"))>> >>))>>,
                  <<"w", PlacedIn(Optional(Rule("string")), "query")>>,
                  <<"f", Rule("forbidden")>> >>),
       !.merged = Merged("p", <<"t2", "t2">>), !.tagDefs = <<TagDef("t2", "second")>>]

\* POST /b/{i}: the output path of PostB, from another full path, with a
\* field named like its path parameter, a field of one of three kinds, an
\* optional field and a field that has to equal it.
PostBBraces ==
    [DefaultAlias EXCEPT
       !.fullPath = "/b/{i}", !.methods = <<"post">>, !.action = Str("s.r"),
       !.server = Server("one"),
       !.bodyParsers = Obj(<< <<"json", Bool(TRUE)>>, <<"urlencoded", Bool(TRUE)>>,
                              <<"text", Bool(FALSE)>> >>),
       !.params = Obj(<< <<"n", Rule("number")>>, <<"i", Rule("number")>>,
                         <<"u", MultiRule(<<Rule("string"),
                                            ObjectRule(<< <<"a", Rule("string")>> >>),
                                            ObjectRule(<< <<"b", Optional(Rule("number"))>> >>)>>)>>,
                         <<"p", Optional(Rule("string"))>>,
                         <<"c", EqualRule("p")>> >>),
       !.merged = Merged("r", <<>>)]

\* PUT /b/a of an action also named s.p: its component takes PostB's name.
\* Its service configures no default content type.
PutBA ==
    [DefaultAlias EXCEPT
       !.fullPath = "/b/a", !.methods = <<"put">>, !.action = Str("s.p"),
       !.defaultResponseContentType = Undefined,
       !.params = Obj(<< <<"n", Optional(Rule("number"))>> >>),
       !.merged = Merged("again p", <<>>)]

\* POST /d: a nested object with an optional property, and one with a
\* function-typed property.
PostD ==
    [DefaultAlias EXCEPT
       !.fullPath = "/d", !.methods = <<"post">>, !.action = Str("s.d"),
       !.params = Obj(<< <<"g", ObjectRule(<< <<"v", Optional(Rule("string"))>> >>)>>,
                         <<"h", ObjectRule(<< <<"x", Rule("function")>> >>)>> >>),
       !.merged = Merged("d", <<>>)]

\* GET and PUT /e/{k} with an explicit path parameter, a field moved to the
\* body and a custom field.
GetE ==
    [DefaultAlias EXCEPT
       !.fullPath = "/e/{k}", !.methods = <<"get", "put">>, !.action = Str("s.e"),
       !.openapi = Obj(<< <<"pathParameters",
                            Arr(<<Obj(<< <<"name", Str("k")>>,
                                         <<"schema", Obj(<< <<"type", Str("number")>> >>)>> >>)>>)>> >>),
       !.params = Obj(<< <<"b", PlacedIn(Rule("string"), "body")>>,
                         <<"c", Rule("custom")>> >>),
       !.merged = Merged("e", <<>>)]

\* GET /c/{i}: an optional query field, and a definition of its own for
\* the tag t1.
GetC ==
    [DefaultAlias EXCEPT
       !.fullPath = "/c/{i}", !.action = Str("s.c"),
       !.params = Obj(<< <<"n", Optional(Rule("string"))>> >>),
       !.merged = Merged("c", <<"t1">>), !.tagDefs = <<TagDef("t1", "other")>>]

\* POST /r: a root-level rule schema; the one enabled body parser of its
\* route maps to no content type.
PostRoot ==
    [DefaultAlias EXCEPT
       !.fullPath = "/r", !.methods = <<"post">>, !.action = Str("s.t"),
       !.bodyParsers = Obj(<< <<"json", Bool(FALSE)>>, <<"raw", Bool(TRUE)>> >>),
       !.params = Obj(<< <<"$$root", Bool(TRUE)>>, <<"type", Str("string")>> >>),
       !.merged = Merged("t", <<>>)]

\* POST /f: a multipart upload with a root-level rule schema.
UploadRoot ==
    [PostRoot EXCEPT !.fullPath = "/f", !.action = Str("s.f"), !.type = Str("multipart")]

\* POST /g: a multipart upload of one file with an object rule schema.
UploadOne ==
    [DefaultAlias EXCEPT
       !.fullPath = "/g", !.methods = <<"post">>, !.action = Str("s.g"),
       !.type = Str("multipart"), !.filesLimit = Num(1),
       !.params = Obj(<< <<"n", Rule("string")>> >>),
       !.merged = Merged("g", <<>>)]

\* GET /q: no action; the query parameters are given by the alias.
GetQ ==
    [DefaultAlias EXCEPT
       !.fullPath = "/q",
       !.openapi = Obj(<< <<"queryParameters",
                            Arr(<<Obj(<< <<"name", Str("z")>>,
                                         <<"schema", Obj(<< <<"type", Str("string")>> >>)>> >>)>>)>> >>),
       !.merged = Merged("q", <<>>)]

\* GET /q/{i} of action s.q: the query parameters are given by the alias.
GetQueried ==
    [GetQ EXCEPT
       !.fullPath = "/q/{i}", !.action = Str("s.q"),
       !.params = Obj(<< <<"n", Rule("string")>> >>)]

Aliases ==
    <<GetA, GetAOnTwo, GetAOther, GetANoServer, PostB, PostBBraces, PutBA, PostD, GetE,
      GetC, PostRoot, UploadRoot, UploadOne, GetQ, GetQueried>>

AliasIds == 1..Len(Aliases)

\* The base document of the generator: a preset version, and a component
\* named like the one PostB generates.
BaseDocument ==
    Obj(<< <<"info", Obj(<< <<"title", Str("api")>> >>)>>,
           <<"openapi", Str("2.0.0")>>,
           <<"components",
             Obj(<< <<"schemas",
                      Obj(<< <<"s.p", Obj(<< <<"type", Str("string")>> >>)>>,
                             <<"Base", Obj(<< <<"type", Str("boolean")>> >>)>>,
                             <<"Off", Bool(FALSE)>> >>)>> >>)>> >>)

OpenApiVersions == {"3.0", "3.1"}


(***************************************************************************)
(* The generator as a state machine                                        *)
(***************************************************************************)
MaxCalls == 2

MaxRoutes == 2

VARIABLES
    components,        \* this.components, the component store of the instance
    document,          \* this.document, the caller-supplied base document
    aliases,           \* the caller's route list (numbers of Aliases)
    pc,                \* "idle", "supplied" (a list is ready), "running"
    doc,               \* generate's document; once returned, the result
    idx,               \* the route of the list being processed
    m,                 \* the method of that route being processed
    cachePathActions,  \* path.method -> name of the action that claimed it
    tagsMap,           \* tag name -> tag object
    log,               \* the warnings logged since the list was supplied
    calls,             \* generate() calls made so far
    outcome            \* of the last call: "none", "returned" or its error

vars == <<components, document, aliases, pc, doc, idx, m, cachePathActions,
          tagsMap, log, calls, outcome>>

\* The route lists a caller may supply: up to MaxRoutes distinct routes, in
\* any order.
RECURSIVE ListsOfLength(_)
ListsOfLength(n) ==
    IF n = 0 THEN {<<>>}
    ELSE {Append(l, id) : l \in ListsOfLength(n - 1), id \in AliasIds}

Distinct(l) == \A i, j \in 1..Len(l) : i # j => l[i] # l[j]

RouteLists == {l \in UNION {ListsOfLength(n) : n \in 0..MaxRoutes} : Distinct(l)}

Init ==
    /\ components = EmptyComponents
    /\ document = BaseDocument
    /\ aliases = <<>>
    /\ pc = "idle"
    /\ doc = Undefined
    /\ idx = 0
    /\ m = 0
    /\ cachePathActions = EmptyObj
    /\ tagsMap = EmptyObj
    /\ log = <<>>
    /\ calls = 0
    /\ outcome = "none"

\* The caller prepares the route list of its next generate() call; the
\* result, the log and the locals of the previous call are gone.
Supply(list) ==
    /\ pc = "idle"
    /\ calls < MaxCalls
    /\ aliases' = list
    /\ pc' = "supplied"
    /\ doc' = Undefined
    /\ log' = <<>>
    /\ outcome' = "none"
    /\ idx' = 0
    /\ m' = 0
    /\ cachePathActions' = EmptyObj
    /\ tagsMap' = EmptyObj
    /\ UNCHANGED <<components, document, calls>>

\* A sort that leaves the list as the caller gave it.
AsSupplied(list) == list

\* aliases.sort(getAlphabeticSorter('fullPath')): the route numbers, each
\* paired with the full path of its route, sorted by that path.
PathPairs(list) == [i \in 1..Len(list) |-> <<Aliases[list[i]].fullPath, list[i]>>]

Elements(pairs) == [i \in 1..Len(pairs) |-> pairs[i][2]]

SortAliases(list) == Elements(SortByKey(PathPairs(list)))

\* if (document.responses) delete document.responses
WithoutResponses(d) == IF Truthy(Get(d, "responses")) THEN Del(d, "responses") ELSE d

\* The document generate() starts from.
SeedDocument(openApiVersion, base) ==
    WithoutResponses(
        Set(Set(Set(Spread(Obj(<< <<"openapi", Str(openApiVersion \o ".0")>> >>), base),
                    "servers", Arr(<<>>)),
                "tags", Arr(<<>>)),
            "components", cleanComponents(Get(base, "components"))))

\* generate(), up to the loop, keeping the version field of the base.
GenerateBeginKeeping(openApiVersion) ==
    /\ pc = "supplied"
    /\ doc' = SeedDocument(openApiVersion, document)
    /\ cachePathActions' = EmptyObj
    /\ tagsMap' = EmptyObj
    /\ aliases' = SortAliases(aliases)
    /\ idx' = 1
    /\ m' = 1
    /\ pc' = "running"
    /\ calls' = calls + 1
    /\ UNCHANGED <<components, document, log, outcome>>

\* generate(), up to the loop over the routes.
GenerateBegin(openApiVersion) ==
    /\ pc = "supplied"
    /\ log' = IF Truthy(Get(document, "openapi"))
              THEN Append(log, [kind |-> "openapi version set manually"])
              ELSE log
    /\ document' = IF Truthy(Get(document, "openapi")) THEN Del(document, "openapi")
                   ELSE document
    /\ doc' = SeedDocument(openApiVersion, document')
    /\ cachePathActions' = EmptyObj
    /\ tagsMap' = EmptyObj
    /\ aliases' = SortAliases(aliases)
    /\ idx' = 1
    /\ m' = 1
    /\ pc' = "running"
    /\ calls' = calls + 1
    /\ UNCHANGED <<components, outcome>>

\* The route and method the loop of generate() is at.
InLoop == pc = "running" /\ idx <= Len(aliases)

CurrentAlias == Aliases[aliases[idx]]

CurrentMethod == Aliases[aliases[idx]].methods[m]

OpenapiPath(alias) == formatParamUrl(normalizePath(alias.fullPath))

CacheKeyName(alias, method) == OpenapiPath(alias) \o "." \o method

\* document.paths ??= {}
WithPaths(d) == IF Truthy(Get(d, "paths")) THEN d ELSE Set(d, "paths", EmptyObj)

\* The path item of the route (a joker route sets its description and
\* summary).
PathItem(found, alias) ==
    IF alias.joker
    THEN Set(Set(found, "description", Get(alias.actionOpenapi, "description")),
             "summary", Get(alias.actionOpenapi, "summary"))
    ELSE found

CurrentPath(d, alias) ==
    PathItem(Coalesce(Get(Get(WithPaths(d), "paths"), OpenapiPath(alias)), EmptyObj), alias)

\* document.paths[openapiPath] = currentPath. The code does it after the
\* last method of the route; no other key is added to paths in between, so
\* writing it after each method yields the same paths.
StorePath(d, alias, currentPath) ==
    Set(WithPaths(d), "paths",
        Set(Get(WithPaths(d), "paths"), OpenapiPath(alias), currentPath))

\* The loop moves to the next method of the route, or to the next route.
Advance(alias) ==
    IF m < Len(alias.methods)
    THEN idx' = idx /\ m' = m + 1
    ELSE idx' = idx + 1 /\ m' = 1

ServerUrl(alias) == Get(alias.server, "url")

\* The test without its first part: the operation may have no server.
AddsServerToAny(currentMethod, alias) ==
    /\ Truthy(ServerUrl(alias))
    /\ ~\E i \in 1..Len(Coalesce(Get(currentMethod, "servers"), Arr(<<>>)).s) :
          Get(Get(currentMethod, "servers").s[i], "url") = ServerUrl(alias)

\* The test of generate() for adding a server to a registered operation.
AddsServer(currentMethod, alias) ==
    /\ Truthy(Get(currentMethod, "servers"))
    /\ Len(Get(currentMethod, "servers").s) > 0
    /\ Truthy(ServerUrl(alias))
    /\ ~\E i \in 1..Len(Get(currentMethod, "servers").s) :
          Get(Get(currentMethod, "servers").s[i], "url") = ServerUrl(alias)

\* currentMethod.servers.push(server)
PushServer(currentMethod, server) ==
    Set(currentMethod, "servers", Arr(Append(Get(currentMethod, "servers").s, server)))

\* The registered operation of the route takes the server of the route.
AppendServerTo(alias, method, currentPath) ==
    /\ Truthy(Get(currentPath, method))
    /\ AddsServer(Get(currentPath, method), alias)
    /\ doc' = addServerToDocument(
                  StorePath(doc, alias,
                            Set(currentPath, method,
                                PushServer(Get(currentPath, method), alias.server))),
                  alias.server)
    /\ Advance(alias)
    /\ UNCHANGED <<components, document, aliases, pc, cachePathActions, tagsMap,
                   log, calls, outcome>>

\* The path and method are registered, and the route brings a new server.
AppendServerOn(alias, method) == AppendServerTo(alias, method, CurrentPath(doc, alias))

AppendServer ==
    /\ InLoop
    /\ AppendServerOn(CurrentAlias, CurrentMethod)

\* A warning that names the action of the skipped route itself.
AlreadyRegisteredNamingSkipped(alias, method, actionFromCache) ==
    [kind |-> "already registered", method |-> method, path |-> OpenapiPath(alias),
     action |-> Coalesce(alias.action, Str("<unamedAction>"))]

\* The warning of a skipped route: it names the action that claimed the
\* path and method.
AlreadyRegistered(alias, method, actionFromCache) ==
    [kind |-> "already registered", method |-> method, path |-> OpenapiPath(alias),
     action |-> Coalesce(actionFromCache, Str("<unamedAction>"))]

\* The route is left out of the document, but for its server.
SkipRouteKeepingServer(alias, method, currentPath) ==
    /\ Truthy(Get(currentPath, method))
    /\ ~AddsServer(Get(currentPath, method), alias)
    /\ log' = Append(log, AlreadyRegistered(
                              alias, method,
                              Get(cachePathActions, CacheKeyName(alias, method))))
    /\ doc' = IF Truthy(alias.server)
              THEN addServerToDocumentAlways(StorePath(doc, alias, currentPath), alias.server)
              ELSE StorePath(doc, alias, currentPath)
    /\ Advance(alias)
    /\ UNCHANGED <<components, document, aliases, pc, cachePathActions, tagsMap,
                   calls, outcome>>

\* The route is left out of the document, with a warning.
SkipRoute(alias, method, currentPath) ==
    /\ Truthy(Get(currentPath, method))
    /\ ~AddsServer(Get(currentPath, method), alias)
    /\ log' = Append(log, AlreadyRegistered(
                              alias, method,
                              Get(cachePathActions, CacheKeyName(alias, method))))
    /\ doc' = StorePath(doc, alias, currentPath)
    /\ Advance(alias)
    /\ UNCHANGED <<components, document, aliases, pc, cachePathActions, tagsMap,
                   calls, outcome>>

\* The path and method are registered: the route is skipped with a warning.
SkipOn(alias, method) == SkipRoute(alias, method, CurrentPath(doc, alias))

SkipRegistered ==
    /\ InLoop
    /\ SkipOn(CurrentAlias, CurrentMethod)


\* OpenApiMerger.merge: the merged settings of the route (alias.merged);
\* the tag objects the route defines enter tagsMap unless their name is there.
RECURSIVE MergeTags(_, _)
MergeTags(map, tagDefs) ==
    IF tagDefs = <<>> THEN map
    ELSE MergeTags(IF Has(map, Get(Head(tagDefs), "name").v) THEN map
                   ELSE Set(map, Get(Head(tagDefs), "name").v, Head(tagDefs)),
                   Tail(tagDefs))

\* The default summary template, filled in.
Summary(summary, action, autoAlias) ==
    Str((IF summary = "" THEN "" ELSE summary \o " ") \o "(" \o action \o ")" \o autoAlias)

\* The summary of an operation under the default summary template.
SummaryOf(openApi, alias) ==
    Summary(Coalesce(Get(openApi, "summary"), Str("")).v,
            Coalesce(alias.action, Str(UNRESOLVED_ACTION_NAME)).v,
            IF alias.autoAliases THEN "[autoAlias]" ELSE "")

\* The operation object generate() builds for a route.
BuildOperation(openApi, alias, tags, extracted) ==
    Set(Obj(<< <<"summary", IF ~alias.joker THEN Get(openApi, "summary") ELSE Undefined>>,
               <<"description",
                 IF ~alias.joker THEN Get(openApi, "description") ELSE Undefined>>,
               <<"operationId", Get(openApi, "operationId")>>,
               <<"servers", IF Truthy(alias.server) THEN Arr(<<alias.server>>)
                            ELSE Arr(<<>>)>>,
               <<"externalDocs", Get(openApi, "externalDocs")>>,
               <<"security", Get(openApi, "security")>>,
               <<"tags", tags>>,
               <<"parameters", Arr(extracted.parameters)>>,
               <<"requestBody", extracted.requestBody>>,
               <<"responses", Get(openApi, "responses")>> >>),
        "summary", SummaryOf(openApi, alias))

\* The store as extractParameters finds it.
StoreContext == [schemas |-> Get(components, "schemas"), log |-> log, error |-> NoError]

\* if (alias.route?.apiService?.settings?.openapi?.server) addServerToDocument(...)
WithServerOf(d, alias) ==
    IF Truthy(alias.server) THEN addServerToDocument(d, alias.server) ELSE d

\* The document with the operation of the route under its path and method.
WithOperation(handled, alias, method, currentPath, extracted) ==
    WithServerOf(StorePath(handled.document, alias,
                           Set(currentPath, method,
                               BuildOperation(alias.merged, alias, handled.tags,
                                              extracted.value))),
                 alias)

\* The operation of the route is registered, with what extractParameters
\* yields for it.
RegisterRoute(alias, method, currentPath, extracted) ==
    /\ ~Truthy(Get(currentPath, method))
    /\ extracted.ctx.error = NoError
    /\ cachePathActions' = Set(cachePathActions, CacheKeyName(alias, method), alias.action)
    /\ tagsMap' = MergeTags(tagsMap, alias.tagDefs)
    /\ log' = extracted.ctx.log
    /\ components' = mergeComponents(Set(components, "schemas", extracted.ctx.schemas),
                                     cleanComponents(Get(alias.merged, "components")))
    /\ doc' = WithOperation(handleTags(WithPaths(doc), tagsMap', Get(alias.merged, "tags")),
                            alias, method, currentPath, extracted)
    /\ Advance(alias)
    /\ UNCHANGED <<document, aliases, pc, calls, outcome>>

RegisterOn(alias, method) ==
    RegisterRoute(alias, method, CurrentPath(doc, alias),
                  extractParameters(StoreContext, method, OpenapiPath(alias), alias))

\* The path and method are free: the operation of the route is registered.
RegisterOperation ==
    /\ InLoop
    /\ RegisterOn(CurrentAlias, CurrentMethod)

\* generate() ends by the exception of extractParameters, and the store is
\* emptied.
ThrowFromCleared(alias, method, extracted) ==
    /\ ~Truthy(Get(CurrentPath(doc, alias), method))
    /\ extracted.ctx.error # NoError
    /\ log' = extracted.ctx.log
    /\ components' = Set(components, "schemas", EmptyObj)
    /\ outcome' = extracted.ctx.error
    /\ doc' = Undefined
    /\ pc' = "idle"
    /\ UNCHANGED <<document, aliases, idx, m, cachePathActions, tagsMap, calls>>

\* generate() ends by the exception of extractParameters, without a
\* document; what the route stored before the throw stays in the store.
ThrowFrom(alias, method, extracted) ==
    /\ ~Truthy(Get(CurrentPath(doc, alias), method))
    /\ extracted.ctx.error # NoError
    /\ log' = extracted.ctx.log
    /\ components' = Set(components, "schemas", extracted.ctx.schemas)
    /\ outcome' = extracted.ctx.error
    /\ doc' = Undefined
    /\ pc' = "idle"
    /\ UNCHANGED <<document, aliases, idx, m, cachePathActions, tagsMap, calls>>

ThrowOn(alias, method) ==
    ThrowFrom(alias, method,
              extractParameters(StoreContext, method, OpenapiPath(alias), alias))

\* The path and method are free, and extractParameters throws.
RegisterThrows ==
    /\ InLoop
    /\ ThrowOn(CurrentAlias, CurrentMethod)

\* The entries of one section of the store, without their marker fields.
StripEntries(stored) ==
    FromEntries([j \in 1..Len(stored) |-> <<stored[j][1], removeExtensions(stored[j][2])>>])

StripSections(sections) ==
    FromEntries([i \in 1..Len(sections) |->
                   <<sections[i][1], StripEntries(Entries(sections[i][2]))>>])

\* The marker fields of the stored components are deleted in place: the
\* document shares the component objects with the store.
StripStore(store) == StripSections(Entries(store))

NamePairs(tags) == [i \in 1..Len(tags) |-> <<Get(tags[i], "name").v, tags[i]>>]

\* The tags in the order they were added.
TagsAsAdded(d) == d

\* document.tags.sort(getAlphabeticSorter('name'))
SortTags(d) == Set(d, "tags", Arr(Elements(SortByKey(NamePairs(Get(d, "tags").s)))))

\* A components section that leaves the store out.
FinalComponentsOfDocument(d, store) == Get(d, "components")

\* The components section of the returned document.
FinalComponents(d, store) == mergeComponents(Get(d, "components"), store)

\* generate(), after the loop: the document is completed and returned.
GenerateEnd ==
    /\ pc = "running"
    /\ idx > Len(aliases)
    /\ doc' = removeExtensions(Set(SortTags(doc), "components",
                                   FinalComponents(doc, components)))
    /\ components' = StripStore(components)
    /\ pc' = "idle"
    /\ outcome' = "returned"
    /\ UNCHANGED <<document, aliases, idx, m, cachePathActions, tagsMap, log, calls>>

Next ==
    \/ \E list \in RouteLists : Supply(list)
    \/ \E openApiVersion \in OpenApiVersions : GenerateBegin(openApiVersion)
    \/ AppendServer
    \/ SkipRegistered
    \/ RegisterOperation
    \/ RegisterThrows
    \/ GenerateEnd

Spec == Init /\ [][Next]_vars

(***************************************************************************)
(* Properties of generate()                                                *)
(***************************************************************************)
\* generate() has returned its document (doc).
Returned == pc = "idle" /\ outcome = "returned"

Route(i) == Aliases[aliases[i]]

KeysOf(o) == IF IsObj(o) THEN o.k ELSE <<>>

AllMethods == UNION {SeqToSet(Aliases[id].methods) : id \in AliasIds}

\* The output paths of the routes of the list.
OutputPaths == {OpenapiPath(Route(i)) : i \in 1..Len(aliases)}

\* The positions, in the sorted list, of the routes that map to an output
\* path and have a method.
RoutesAt(path, method) ==
    {i \in 1..Len(aliases) :
        OpenapiPath(Route(i)) = path /\ Includes(Route(i).methods, method)}

Min(S) == CHOOSE x \in S : \A y \in S : x <= y

Operation(d, path, method) == Get(Get(Get(d, "paths"), path), method)

\* What parameter extraction yields for a route on its own.
ExtractedAlone(alias, method) ==
    extractParameters([schemas |-> EmptyObj, log |-> <<>>, error |-> NoError],
                      method, OpenapiPath(alias), alias).value

\* The warnings logged for routes dropped at a path and method.
DroppedAt(path, method) ==
    SelectSeq(log, LAMBDA w : /\ w.kind = "already registered"
                              /\ w.method = method
                              /\ w.path = path)

\* The operation at a path and method is the one built from this route.
BuiltFrom(op, alias, method) ==
    /\ Get(op, "summary") = SummaryOf(alias.merged, alias)
    /\ Get(op, "parameters")
         = removeExtensions(Arr(ExtractedAlone(alias, method).parameters))
    /\ Get(op, "requestBody") = removeExtensions(ExtractedAlone(alias, method).requestBody)
    /\ Get(op, "responses") = removeExtensions(Get(alias.merged, "responses"))
    /\ Get(op, "tags") = Arr(Uniq(Coalesce(Get(alias.merged, "tags"), Arr(<<>>)).s, <<>>))

\* C1: in the returned document, the operation at a path and method that
\* several routes map to is the one built from the first of them in
\* sorted order (its summary, parameters, request body, responses and
\* tags); every later route either added its server to the operation or
\* was dropped with a warning, and every such warning names the action of
\* the first route.
FirstRegistrationWins ==
    Returned =>
        \A path \in OutputPaths, method \in AllMethods :
            RoutesAt(path, method) # {} =>
                LET first == Route(Min(RoutesAt(path, method)))
                    op == Operation(doc, path, method)
                    warnings == DroppedAt(path, method)
                IN /\ BuiltFrom(op, first, method)
                   /\ \A i \in 1..Len(warnings) :
                         warnings[i].action = Coalesce(first.action, Str("<unamedAction>"))
                   /\ Len(warnings) + Len(Get(op, "servers").s)
                        = Cardinality(RoutesAt(path, method)) - 1
                          + (IF Truthy(first.server) THEN 1 ELSE 0)

\* Two routes of the list map to one path and method, and one was dropped.
FirstRegistrationWinsWitness ==
    /\ Returned
    /\ \E path \in OutputPaths, method \in AllMethods :
          /\ Cardinality(RoutesAt(path, method)) >= 2
          /\ Len(DroppedAt(path, method)) >= 1

\* Two routes that differ by their server and by nothing else.
DifferOnlyByServer(a, b) == a.server # b.server /\ [a EXCEPT !.server = b.server] = b

HasServer(servers, server) ==
    IsArr(servers) /\ \E i \in 1..Len(servers.s) : servers.s[i] = server

\* C2: of two routes of the list with one path and method, the second, when
\* it differs from the first only by its server, adds that server to the
\* operation and to the servers of the document, without a warning; when
\* its definition differs otherwise, it is dropped: the operation keeps the
\* servers it had and one warning is recorded.
AppendsServerOrDropsConflict ==
    Returned =>
        \A path \in OutputPaths, method \in AllMethods :
            \A i, j \in RoutesAt(path, method) :
                (RoutesAt(path, method) = {i, j} /\ i < j) =>
                    IF DifferOnlyByServer(Route(i), Route(j))
                    THEN /\ HasServer(Get(Operation(doc, path, method), "servers"), Route(i).server)
                         /\ HasServer(Get(Operation(doc, path, method), "servers"), Route(j).server)
                         /\ HasServer(Get(doc, "servers"), Route(i).server)
                         /\ HasServer(Get(doc, "servers"), Route(j).server)
                         /\ Len(DroppedAt(path, method)) = 0
                    ELSE /\ Len(DroppedAt(path, method)) = 1
                         /\ Len(Get(Operation(doc, path, method), "servers").s)
                              = (IF Truthy(Route(i).server) THEN 1 ELSE 0)

SchemasOf(d) == Get(Get(d, "components"), "schemas")

Stored == Get(components, "schemas")

\* The component names the base document and the store both hold.
SharedNames ==
    {name \in SeqToSet(Stored.k) : Truthy(Get(SchemasOf(document), name))}

\* C3 (as stated): the returned document keeps the entry of the base
\* document for every component name that the base document and the store
\* both hold.
BaseEntryKept ==
    Returned =>
        \A name \in SharedNames :
            Get(SchemasOf(doc), name) = removeExtensions(Get(SchemasOf(document), name))

\* C3 (amended): the returned document holds the entry of the store for
\* every component name that the base document and the store both hold.
StoreEntryWins ==
    Returned =>
        \A name \in SharedNames :
            Get(SchemasOf(doc), name) = removeExtensions(Get(Stored, name))

\* A name is held by both, with different entries.
StoreEntryWinsWitness ==
    /\ Returned
    /\ \E name \in SharedNames :
          removeExtensions(Get(Stored, name))
              # removeExtensions(Get(SchemasOf(document), name))

OverwriteCount(l, name) ==
    Len(SelectSeq(l, LAMBDA w : w.kind = "schema overwrite" /\ w.name = name))

\* One step keeps the store: no name leaves it, an entry changes only by a
\* registration under its name, and the document a call returns holds the
\* whole store.
StoreKeptBy(old, new) ==
    /\ \A name \in SeqToSet(old.k) :
          /\ Has(new, name)
          /\ removeExtensions(Get(new, name)) # removeExtensions(Get(old, name))
                => OverwriteCount(log', name) > OverwriteCount(log, name)
    /\ (pc = "running" /\ outcome' = "returned")
          => \A name \in SeqToSet(new.k) : Get(SchemasOf(doc'), name) = Get(new, name)

\* C4: the component store is cumulative across generate() calls: a
\* component, once registered, stays in the store, is replaced only when a
\* route registers its name again, and is in the document of every later
\* call that returns, whatever the routes of that call.
StoreIsCumulative ==
    [][StoreKeptBy(Get(components, "schemas"), Get(components', "schemas"))]_vars

\* The names a route registers on its own.
NamesFrom(alias) ==
    UNION {SeqToSet(extractParameters([schemas |-> EmptyObj, log |-> <<>>, error |-> NoError],
                                      method, OpenapiPath(alias), alias).ctx.schemas.k)
           : method \in SeqToSet(alias.methods)}

\* A second call has returned a component that none of its routes, and not
\* the base document, holds.
StoreIsCumulativeWitness ==
    /\ Returned
    /\ calls = 2
    /\ \E name \in SeqToSet(SchemasOf(doc).k) :
          /\ ~Has(SchemasOf(document), name)
          /\ \A i \in 1..Len(aliases) : name \notin NamesFrom(Route(i))

\* The object a route registers for its request body.
BodyShape(alias, method) ==
    FromEntries(SelectSeq(
        Entries(getSchemaObjectFromSchema(
                    Spread(getMetas(Coalesce(alias.params, EmptyObj)),
                           getParameters(method, Coalesce(alias.params, EmptyObj), TRUE)))),
        LAMBDA e : Truthy(e[2])))

Register(schemas, name, obj) ==
    createSchemaComponentFromObject([schemas |-> schemas, log |-> <<>>, error |-> NoError],
                                    name, obj, EmptyObj).ctx

Occurrences(keys, name) == Cardinality({i \in 1..Len(keys) : keys[i] = name})

\* Registering obj under a stored name, and then once more.
OverwritesOnce(name, obj, fresh, again, twice) ==
    fresh.error = NoError =>
        /\ again.error = NoError
        /\ Get(again.schemas, name) = Get(fresh.schemas, name)
        /\ Occurrences(again.schemas.k, name) = 1
        /\ OverwriteCount(again.log, name) = 1
        /\ twice.error = NoError
        /\ twice.schemas = again.schemas
        /\ OverwriteCount(twice.log, name) = 1

\* C5: registering an object under a name the store holds replaces the
\* entry by the one the object yields, leaves one entry of that name, does
\* not throw and logs exactly one warning for the name; registering the
\* same object once more leaves the store as it is and logs exactly one
\* warning again.  The objects are the request bodies of the routes of the
\* list, the names are those of the store.
OverwriteIsSurfaced ==
    \A name \in SeqToSet(Stored.k), i \in 1..Len(aliases) :
        \A method \in SeqToSet(Route(i).methods) :
            OverwritesOnce(
                name, BodyShape(Route(i), method),
                Register(EmptyObj, name, BodyShape(Route(i), method)),
                Register(Stored, name, BodyShape(Route(i), method)),
                Register(Register(Stored, name, BodyShape(Route(i), method)).schemas,
                         name, BodyShape(Route(i), method)))

\* A call has registered a name that the store held, and has returned.
OverwriteIsSurfacedWitness ==
    /\ Returned
    /\ \E name \in SeqToSet(Stored.k) :
          /\ OverwriteCount(log, name) >= 1
          /\ Occurrences(Stored.k, name) = 1

\* The least full path among the routes of the list that map to an output
\* path.
LeastFullPath(path) ==
    CHOOSE p \in {Route(i).fullPath : i \in {j \in 1..Len(aliases) : OpenapiPath(Route(j)) = path}} :
        \A i \in 1..Len(aliases) :
            OpenapiPath(Route(i)) = path => ~StrLess(Route(i).fullPath, p)

\* C6: whatever the order in which the caller lists the routes, the paths
\* of the returned document are those of the routes, each inserted once, in
\* ascending order of the full paths of the routes.
PathsAscending ==
    Returned =>
        /\ SeqToSet(KeysOf(Get(doc, "paths"))) = OutputPaths
        /\ \A i, j \in 1..Len(KeysOf(Get(doc, "paths"))) :
              i < j => StrLess(LeastFullPath(Get(doc, "paths").k[i]),
                               LeastFullPath(Get(doc, "paths").k[j]))

\* PostB and PutBA: /b/:i sorts before /b/a, so /b/{i} is inserted first.
PathsAscendingWitness ==
    /\ Returned
    /\ KeysOf(Get(doc, "paths")) = <<"/b/{i}", "/b/a">>

RECURSIVE NoMarkers(_)
NoMarkers(value) ==
    CASE IsArr(value) -> \A i \in 1..Len(value.s) : NoMarkers(value.s[i])
      [] IsObj(value) -> \A i \in 1..Len(value.k) :
                             /\ ~Includes(ExtensionKeys, value.k[i])
                             /\ NoMarkers(Get(value, value.k[i]))
      [] OTHER -> TRUE

\* C7: the returned document holds no marker field (optional, description,
\* summary, deprecated extension key) at any depth: not in its operations,
\* not in the elements of its arrays, not in the inline schemas of its
\* parameters and not in the components earlier calls left in the store.
NoMarkersReturned == Returned => NoMarkers(doc)

\* A second call returns the component s.d.g that a failed call of PostD
\* left in the store, and an operation whose parameters carried markers.
NoMarkersReturnedWitness ==
    /\ Returned
    /\ calls = 2
    /\ Has(SchemasOf(doc), "s.d.g")
    /\ \A i \in 1..Len(aliases) : Route(i) # PostD
    /\ \E i \in 1..Len(aliases) : \E method \in SeqToSet(Route(i).methods) :
          ~NoMarkers(Arr(ExtractedAlone(Route(i), method).parameters))

OmittedKinds == {"forbidden", "function", "class", "custom"}

IsOmitted(rule) == IsObj(rule) /\ IsObj(Get(rule, "type")) = FALSE
                     /\ Get(rule, "type").t = "str" /\ Get(rule, "type").v \in OmittedKinds

\* The names of the fields of an omitted kind, at the top of a rule schema
\* or among the properties of its object rules.
OmittedFields(params) ==
    {name \in SeqToSet(params.k) : IsOmitted(Get(params, name))}
    \cup UNION {{name \in SeqToSet(Get(Get(params, field), "props").k) :
                    IsOmitted(Get(Get(Get(params, field), "props"), name))}
                : field \in {f \in SeqToSet(params.k) : IsObj(Get(Get(params, f), "props"))}}

ExtractionAlone(alias, method) ==
    extractParameters([schemas |-> EmptyObj, log |-> <<>>, error |-> NoError],
                      method, OpenapiPath(alias), alias)

\* No parameter and no schema of an extraction names the field.
AbsentFrom(extraction, name) ==
    /\ extraction.ctx.error = NoError
    /\ \A i \in 1..Len(extraction.value.parameters) :
          Get(extraction.value.parameters[i], "name") # Str(name)
    /\ \A i \in 1..Len(extraction.ctx.schemas.k) :
          /\ ~Includes(KeysOf(Get(Get(extraction.ctx.schemas, extraction.ctx.schemas.k[i]),
                                   "properties")), name)
          /\ ~HasServer(Get(Get(extraction.ctx.schemas, extraction.ctx.schemas.k[i]),
                             "required"), Str(name))

\* C8: a field of kind forbidden, function, class or custom is omitted at
\* every depth: no call of generate() ends with an error, and for every
\* route of the list no parameter, no property and no required list names
\* such a field.
AlwaysOmitted ==
    /\ outcome \in {"none", "returned"}
    /\ Returned =>
          \A i \in 1..Len(aliases) : \A method \in SeqToSet(Route(i).methods) :
              \A name \in OmittedFields(Route(i).params) :
                  AbsentFrom(ExtractionAlone(Route(i), method), name)

\* The path parameters of a registered operation.
PathParametersOf(op) ==
    SelectSeq(Get(op, "parameters").s, LAMBDA parameter : Get(parameter, "in") = Str("path"))

Overrides(alias) == Get(alias.openapi, "pathParameters")

\* The places of a path where a {name} placeholder opens, and where it closes.
ClosesAt(path, i, j) ==
    /\ CharAt(path, j) = "}"
    /\ \A k \in (i + 1)..(j - 1) : IsWordChar(CharAt(path, k))

OpensAt(path) ==
    {i \in 1..Len(path) :
        CharAt(path, i) = "{" /\ \E j \in (i + 2)..Len(path) : ClosesAt(path, i, j)}

\* The names of the placeholders of a path, in order of appearance.
Placeholders(path) ==
    [n \in 1..Cardinality(OpensAt(path)) |->
        LET i == CHOOSE o \in OpensAt(path) :
                     Cardinality({k \in OpensAt(path) : k <= o}) = n
        IN SubSeq(path, i + 1,
                  (CHOOSE j \in (i + 2)..Len(path) : ClosesAt(path, i, j)) - 1)]

\* C9: the path parameters of every operation of the returned document are
\* in the path and required: the overrides of its route, each with in =
\* path and required = true, or else one required string parameter per
\* placeholder of the path, in order of appearance.
PathParametersRequired ==
    Returned =>
        \A path \in OutputPaths, method \in AllMethods :
            RoutesAt(path, method) # {} =>
                PathParametersOf(Operation(doc, path, method))
                  = (IF Truthy(Overrides(Route(Min(RoutesAt(path, method)))))
                     THEN [n \in 1..Len(Overrides(Route(Min(RoutesAt(path, method)))).s) |->
                             Set(Set(Overrides(Route(Min(RoutesAt(path, method)))).s[n],
                                     "in", Str("path")),
                                 "required", Bool(TRUE))]
                     ELSE [n \in 1..Len(Placeholders(path)) |->
                             Obj(<< <<"name", Str(Placeholders(path)[n])>>,
                                    <<"in", Str("path")>>,
                                    <<"required", Bool(TRUE)>>,
                                    <<"schema", Obj(<< <<"type", Str("string")>> >>)>> >>)])

\* The location the claim gives a field: its override, or the default of
\* the method.
LocationOf(method, rule) ==
    IF Truthy(Get(Get(rule, "$$oa"), "in")) THEN Get(Get(rule, "$$oa"), "in").v
    ELSE IF method \in ALLOWING_BODY_METHODS THEN "body"
    ELSE "query"

IsOrdinary(alias) == alias.type \notin {Str("multipart"), Str("stream")}

\* const actionParams = alias?.actionSchema?.params ?? {}
ParamsOf(alias) == Coalesce(alias.params, EmptyObj)

\* The field is classified once, and is emitted nowhere but in its location.
PlacedAt(alias, method, field, location, extraction) ==
    /\ Includes(getParameters(method, ParamsOf(alias), TRUE).k, field) = (location = "body")
    /\ Includes(getParameters(method, ParamsOf(alias), FALSE).k, field) = (location = "query")
    /\ extraction.ctx.error = NoError =>
          /\ (\E i \in 1..Len(extraction.value.parameters) :
                 /\ Get(extraction.value.parameters[i], "name") = Str(field)
                 /\ Get(extraction.value.parameters[i], "in") = Str("query"))
                => location = "query"
          /\ Includes(KeysOf(Get(Get(extraction.ctx.schemas, alias.action.v), "properties")),
                      field)
                => location = "body"

\* C10: for every ordinary route of the list, each top-level field of the
\* rule schema is placed in exactly one of query and body: where its
\* override says when it has one, otherwise in the body for the methods
\* that carry a body and in the query for the others.
PlacedOnce ==
    \A i \in 1..Len(aliases) : \A method \in SeqToSet(Route(i).methods) :
        IsOrdinary(Route(i)) =>
            \A field \in SeqToSet(getValidationRules(ParamsOf(Route(i))).k) :
                PlacedAt(Route(i), method, field,
                         LocationOf(method, Get(ParamsOf(Route(i)), field)),
                         ExtractionAlone(Route(i), method))

\* PostB is registered: w, moved by its override, is a query parameter of
\* the POST operation, and n is a property of the body component.
PlacedOnceWitness ==
    /\ Returned
    /\ \E i \in 1..Len(aliases) : Route(i) = PostB
    /\ \E n \in 1..Len(Get(Operation(doc, "/b/{i}", "post"), "parameters").s) :
          /\ Get(Get(Operation(doc, "/b/{i}", "post"), "parameters").s[n], "name") = Str("w")
          /\ Get(Get(Operation(doc, "/b/{i}", "post"), "parameters").s[n], "in") = Str("query")
    /\ Includes(Get(Get(SchemasOf(doc), "s.p"), "properties").k, "n")


(***************************************************************************)
(* Properties of the parameters and of the request body                    *)
(***************************************************************************)

\* The route takes its query parameters from its rule schema.
DerivesQuery(alias) ==
    /\ IsOrdinary(alias)
    /\ ~Truthy(Get(alias.openapi, "queryParameters"))
    /\ \/ Truthy(Get(alias.openapi, "requestBody"))
       \/ Truthy(alias.params) /\ Truthy(alias.action)

\* The fragment of a rule on its own.
FragmentOf(rule) == getSchemaObjectFromRule(rule, Undefined, Undefined)

IsOptional(rule) == Get(FragmentOf(rule), EOAExtensions.optional) = Bool(TRUE)

\* The query-placed fields of a route that are not path parameters.
QueryFieldsOf(alias, method) ==
    {field \in SeqToSet(getParameters(method, ParamsOf(alias), FALSE).k) :
        /\ ~Includes(Placeholders(OpenapiPath(alias)), field)
        /\ Truthy(FragmentOf(Get(ParamsOf(alias), field)))}

QueryParametersOf(op) ==
    SelectSeq(Get(op, "parameters").s, LAMBDA parameter : Get(parameter, "in") = Str("query"))

Named(parameters, name) ==
    SelectSeq(parameters, LAMBDA parameter : Get(parameter, "name") = Str(name))

\* Every query-placed field of the route is one query parameter of the
\* operation, required when its rule is not optional and flagged as given
\* when it is.
RequiredUnlessOptional(op, alias, method, whenOptional) ==
    /\ \A field \in QueryFieldsOf(alias, method) :
          /\ Len(Named(QueryParametersOf(op), field)) = 1
          /\ Get(Named(QueryParametersOf(op), field)[1], "required")
               = IF IsOptional(Get(ParamsOf(alias), field)) THEN whenOptional
                 ELSE Bool(TRUE)
    /\ Len(QueryParametersOf(op)) = Cardinality(QueryFieldsOf(alias, method))

\* The query parameters of every operation built from a rule schema.
QueryRequiredIs(whenOptional) ==
    Returned =>
        \A path \in OutputPaths, method \in AllMethods :
            (RoutesAt(path, method) # {} /\ DerivesQuery(Route(Min(RoutesAt(path, method)))))
                => RequiredUnlessOptional(Operation(doc, path, method),
                                          Route(Min(RoutesAt(path, method))),
                                          method, whenOptional)

\* C11 as stated: the required flag of a query parameter is the negation of
\* the optional marker of its fragment, true for a rule that is not
\* optional and false for one that is.
QueryRequiredNegatesOptional == QueryRequiredIs(Bool(FALSE))

\* GET /c/{i} with the rule schema { n: optional string } has two
\* parameters, i in the path and n in the query, and no request body.
TwoParametersNoBody(op) ==
    /\ Len(Get(op, "parameters").s) = 2
    /\ Len(Named(PathParametersOf(op), "i")) = 1
    /\ Get(Named(PathParametersOf(op), "i")[1], "required") = Bool(TRUE)
    /\ Get(Get(Named(PathParametersOf(op), "i")[1], "schema"), "type") = Str("string")
    /\ Len(Named(QueryParametersOf(op), "n")) = 1
    /\ Get(Get(Named(QueryParametersOf(op), "n")[1], "schema"), "type") = Str("string")
    /\ ~Truthy(Get(op, "requestBody"))

\* C11: the required flag of a query parameter is true when the fragment
\* of its rule lacks the optional marker and is absent, never false, when
\* the fragment has it; GET /c/{i} with { n: optional string } yields
\* exactly the path parameter i and the query parameter n, and no request
\* body.
QueryRequiredTrueOrAbsent ==
    /\ QueryRequiredIs(Undefined)
    /\ (Returned /\ Truthy(Operation(doc, OpenapiPath(GetC), "get")))
          => TwoParametersNoBody(Operation(doc, OpenapiPath(GetC), "get"))

\* GET /c/{i} is in the returned document, with n in the query and no
\* required flag.
QueryRequiredTrueOrAbsentWitness ==
    /\ Returned
    /\ \E i \in 1..Len(aliases) : Route(i) = GetC
    /\ Len(Named(QueryParametersOf(Operation(doc, OpenapiPath(GetC), "get")), "n")) = 1
    /\ Get(Named(QueryParametersOf(Operation(doc, OpenapiPath(GetC), "get")), "n")[1],
           "required") = Undefined

\* The names of the fields of obj whose fragment lacks the optional marker.
RequiredFields(obj) ==
    [i \in 1..Len(SelectSeq(obj.k, LAMBDA field :
                       Get(Get(obj, field), EOAExtensions.optional) # Bool(TRUE))) |->
        Str(SelectSeq(obj.k, LAMBDA field :
                Get(Get(obj, field), EOAExtensions.optional) # Bool(TRUE))[i])]

\* What a registration that did not throw has stored and returned.
RegisteredAs(name, obj, registration) ==
    registration.ctx.error = NoError =>
        /\ registration.value = Obj(<< <<"$ref", Str(RefTo(name))>> >>)
        /\ getComponentByRef(registration.ctx, Get(registration.value, "$ref").v)
             = Get(registration.ctx.schemas, name)
        /\ Get(Get(registration.ctx.schemas, name), "type") = Str("object")
        /\ KeysOf(Get(Get(registration.ctx.schemas, name), "properties")) = obj.k
        /\ Get(Get(registration.ctx.schemas, name), "required")
             = IF RequiredFields(obj) = <<>> THEN Undefined ELSE Arr(RequiredFields(obj))

\* The object registered for the body of a route: the body-placed fields
\* that have a fragment and are not path parameters.
BodyObject(alias, method) ==
    FromEntries(SelectSeq(Entries(BodyShape(alias, method)),
                          LAMBDA e : ~Includes(Placeholders(OpenapiPath(alias)), e[1])))

\* The route has its request body generated from an object rule schema.
DerivesBody(alias, method) ==
    /\ IsOrdinary(alias)
    /\ ~Truthy(Get(alias.openapi, "requestBody"))
    /\ Truthy(alias.params) /\ Truthy(alias.action)
    /\ Get(alias.params, "$$root") # Bool(TRUE)
    /\ getParameters(method, alias.params, TRUE).k # <<>>

\* The positions of the routes of the list bound to an action.
RoutesOf(action) == {i \in 1..Len(aliases) : Route(i).action = action}

SchemaOfBody(op) ==
    LET content == Get(Get(op, "requestBody"), "content")
    IN Get(Get(content, KeysOf(content)[1]), "schema")

\* The body of the operation references the component named after the
\* action, and the component has the fields of the body object.
BodyComponentOf(op, d, alias, method) ==
    /\ SchemaOfBody(op) = Obj(<< <<"$ref", Str(RefTo(alias.action.v))>> >>)
    /\ KeysOf(Get(Get(SchemasOf(d), alias.action.v), "properties"))
         = BodyObject(alias, method).k
    /\ Get(Get(SchemasOf(d), alias.action.v), "required")
         = IF RequiredFields(BodyObject(alias, method)) = <<>> THEN Undefined
           ELSE Arr(RequiredFields(BodyObject(alias, method)))

\* C12: registering an object of field fragments under a name stores an
\* object fragment whose required list is the names of the fields whose
\* fragment lacks the optional marker, in order (absent when there is
\* none), and whose properties are the supplied fields, and returns the
\* reference to that name; in the returned document, the request body of
\* a route that is the only one of its action references one component
\* with these required names and properties.
RegisterObjectRequired ==
    /\ \A i \in 1..Len(aliases) : \A method \in SeqToSet(Route(i).methods) :
          Truthy(Route(i).action) =>
              RegisteredAs(Route(i).action.v, BodyShape(Route(i), method),
                           createSchemaComponentFromObject(
                               [schemas |-> Stored, log |-> <<>>, error |-> NoError],
                               Route(i).action.v, BodyShape(Route(i), method), EmptyObj))
    /\ Returned =>
          \A path \in OutputPaths, method \in AllMethods :
              (/\ RoutesAt(path, method) # {}
               /\ DerivesBody(Route(Min(RoutesAt(path, method))), method)
               /\ Cardinality(RoutesOf(Route(Min(RoutesAt(path, method))).action)) = 1)
                  => BodyComponentOf(Operation(doc, path, method), doc,
                                     Route(Min(RoutesAt(path, method))), method)

\* POST /b/{i} of s.p is returned alone: its component requires n and l,
\* and has the optional o among its properties.
RegisterObjectRequiredWitness ==
    /\ Returned
    /\ Len(aliases) = 1 /\ Route(1) = PostB
    /\ Get(Get(SchemasOf(doc), "s.p"), "required") = Arr(<<Str("n"), Str("l")>>)
    /\ KeysOf(Get(Get(SchemasOf(doc), "s.p"), "properties")) = <<"n", "o", "l">>
    /\ SchemaOfBody(Operation(doc, "/b/{i}", "post"))
         = Obj(<< <<"$ref", Str(RefTo("s.p"))>> >>)

\* The route has its request body generated from its rule schema, of an
\* object or of a root-level rule.
GeneratesBody(alias, method) ==
    /\ IsOrdinary(alias)
    /\ ~Truthy(Get(alias.openapi, "requestBody"))
    /\ Truthy(alias.params) /\ Truthy(alias.action)
    /\ getParameters(method, alias.params, TRUE).k # <<>>

IsRoot(alias) == Get(alias.params, "$$root") = Bool(TRUE)

\* At least one body-placed field of the route is not optional; the one
\* field of a root-level rule schema is the rule itself.
SomeBodyFieldRequired(alias, method) ==
    IF IsRoot(alias) THEN ~IsOptional(Del(alias.params, "$$root"))
    ELSE RequiredFields(BodyObject(alias, method)) # <<>>

\* C13 as stated: the required flag of a generated request body is true if
\* and only if at least one body-placed field is not optional, for an
\* object rule schema and for a root-level one.
BodyRequiredIffFieldRequired ==
    Returned =>
        \A path \in OutputPaths, method \in AllMethods :
            (/\ RoutesAt(path, method) # {}
             /\ GeneratesBody(Route(Min(RoutesAt(path, method))), method))
                => Get(Get(Operation(doc, path, method), "requestBody"), "required")
                     = Bool(SomeBodyFieldRequired(Route(Min(RoutesAt(path, method))), method))


(***************************************************************************)
(* Properties of the members of a composition                              *)
(***************************************************************************)

\* The body-placed fields of a route whose fragment is a composition.
ComposedFieldsOf(alias, method) ==
    {field \in SeqToSet(BodyObject(alias, method).k) :
        Truthy(Get(Get(BodyObject(alias, method), field), "oneOf"))}

IsObjectMember(member) ==
    Get(member, "type") = Str("object") /\ Truthy(Get(member, "properties"))

\* The number of a member by its place in the composition, from zero, and
\* by the object-typed members before it.
PlaceOf(members, p) == p - 1

ObjectsBefore(members, p) ==
    Cardinality({q \in 1..(p - 1) : Get(members[q], "type") = Str("object")})

\* The members of the field's composition, before registration and in the
\* component of the route's action.
MembersOf(alias, method, field) == Get(Get(BodyObject(alias, method), field), "oneOf").s

StoredMembersOf(d, alias, field) ==
    Get(Get(Get(Get(SchemasOf(d), alias.action.v), "properties"), field), "oneOf").s

\* Every object-typed member of a composition of the route is a reference
\* to a component of the document named by Number.
MembersNamed(d, alias, method, Number(_, _)) ==
    \A field \in ComposedFieldsOf(alias, method) :
        /\ Len(StoredMembersOf(d, alias, field)) = Len(MembersOf(alias, method, field))
        /\ \A p \in 1..Len(MembersOf(alias, method, field)) :
              IsObjectMember(MembersOf(alias, method, field)[p]) =>
                  /\ Get(StoredMembersOf(d, alias, field)[p], "$ref")
                       = Str(RefTo(alias.action.v \o "." \o field \o "."
                                   \o ToString(Number(MembersOf(alias, method, field), p))))
                  /\ Has(SchemasOf(d),
                         alias.action.v \o "." \o field \o "."
                         \o ToString(Number(MembersOf(alias, method, field), p)))

\* The object-typed members of one composition have references of their own.
MembersDistinct(d, alias, method) ==
    \A field \in ComposedFieldsOf(alias, method) :
        \A p, q \in 1..Len(MembersOf(alias, method, field)) :
            (/\ p # q
             /\ IsObjectMember(MembersOf(alias, method, field)[p])
             /\ IsObjectMember(MembersOf(alias, method, field)[q]))
                => StoredMembersOf(d, alias, field)[p] # StoredMembersOf(d, alias, field)[q]

\* The routes of the returned document whose body component is theirs.
OwnsBody(path, method) ==
    /\ RoutesAt(path, method) # {}
    /\ DerivesBody(Route(Min(RoutesAt(path, method))), method)
    /\ Cardinality(RoutesOf(Route(Min(RoutesAt(path, method))).action)) = 1

\* C14 as stated: an object-typed member of a composition is registered
\* under <parent>.<position>, the position being the place of the member
\* in the composition.
MembersNamedByPosition ==
    Returned =>
        \A path \in OutputPaths, method \in AllMethods :
            OwnsBody(path, method)
                => MembersNamed(doc, Route(Min(RoutesAt(path, method))), method, PlaceOf)

\* C14: an object-typed member of a composition is registered under
\* <parent>.<n>, n being the number of object-typed members before it in
\* the composition; distinct object-typed members of one rule have
\* distinct names.
MembersNamedByObjectCount ==
    Returned =>
        \A path \in OutputPaths, method \in AllMethods :
            OwnsBody(path, method)
                => /\ MembersNamed(doc, Route(Min(RoutesAt(path, method))), method,
                                   ObjectsBefore)
                   /\ MembersDistinct(doc, Route(Min(RoutesAt(path, method))), method)

\* POST /b/{i} of s.r is returned: the second and third members of u, the
\* object-typed ones, are the components s.r.u.0 and s.r.u.1.
MembersNamedByObjectCountWitness ==
    /\ Returned
    /\ \E i \in 1..Len(aliases) : Route(i) = PostBBraces
    /\ OwnsBody("/b/{i}", "post")
    /\ Get(StoredMembersOf(doc, PostBBraces, "u")[2], "$ref") = Str(RefTo("s.r.u.0"))
    /\ Get(StoredMembersOf(doc, PostBBraces, "u")[3], "$ref") = Str(RefTo("s.r.u.1"))
    /\ Has(SchemasOf(doc), "s.r.u.0") /\ Has(SchemasOf(doc), "s.r.u.1")


(***************************************************************************)
(* Properties of the upload routes and of the routes without action        *)
(***************************************************************************)

IsMultipart(alias) == alias.type = Str("multipart")

RootOnMultipart == "$$root parameters is not supported on multipart"

IsBinary(schema) ==
    Get(schema, "type") = Str("string") /\ Get(schema, "format") = Str("binary")

\* The member is an object with one required field, the file field: one
\* binary value when the limit is 1, else an array of binary values of at
\* most limit items.
IsFileMember(member, field, limit) ==
    /\ Get(member, "type") = Str("object")
    /\ KeysOf(Get(member, "properties")) = <<field>>
    /\ Get(member, "required") = Arr(<<Str(field)>>)
    /\ IF limit = Num(1) THEN IsBinary(Get(Get(member, "properties"), field))
       ELSE /\ Get(Get(Get(member, "properties"), field), "type") = Str("array")
            /\ IsBinary(Get(Get(Get(member, "properties"), field), "items"))
            /\ Get(Get(Get(member, "properties"), field), "maxItems") = limit

\* The fields of the rule schema that have a fragment and are not path
\* parameters.
UploadFieldsOf(alias) ==
    SelectSeq(getValidationRules(alias.params).k,
              LAMBDA field : /\ Truthy(FragmentOf(Get(alias.params, field)))
                             /\ ~Includes(Placeholders(OpenapiPath(alias)), field))

UploadMembersOf(body) ==
    Get(Get(Get(Get(body, "content"), "multipart/form-data"), "schema"), "allOf").s

\* The upload body of a route with an object rule schema: the file field,
\* then the reference to the component of the fields of the schema.
IsUploadBody(body, schemas, alias) ==
    /\ Get(body, "required") = Bool(TRUE)
    /\ KeysOf(Get(body, "content")) = <<"multipart/form-data">>
    /\ Len(UploadMembersOf(body)) = 2
    /\ IsFileMember(UploadMembersOf(body)[1],
                    Coalesce(alias.fileFieldName, Str(DEFAULT_MULTI_PART_FIELD_NAME)).v,
                    alias.filesLimit)
    /\ UploadMembersOf(body)[2] = Obj(<< <<"$ref", Str(RefTo(alias.action.v))>> >>)
    /\ KeysOf(Get(Get(schemas, alias.action.v), "properties")) = UploadFieldsOf(alias)

\* The limits a multipart route may be configured with.
FileLimits == {Undefined, Num(1), Num(2)}

\* C15: a multipart route with a root-level rule schema makes generate()
\* throw the $$root error, so no call with such a route first at its path
\* and method returns; a multipart route with an object rule schema is
\* extracted without error and its body is an allOf of the required file
\* field (one binary value when the limit is 1, else an array of binary
\* values with maxItems the limit) and of the reference to the component
\* built from the fields of the schema.
UploadBodyComposed ==
    /\ \A i \in 1..Len(aliases) : \A method \in SeqToSet(Route(i).methods) :
          (IsMultipart(Route(i)) /\ IsRoot(Route(i)))
              => ExtractionAlone(Route(i), method).ctx.error = RootOnMultipart
    /\ \A path \in OutputPaths, method \in AllMethods :
          (/\ RoutesAt(path, method) # {}
           /\ IsMultipart(Route(Min(RoutesAt(path, method))))
           /\ ~Truthy(Get(Route(Min(RoutesAt(path, method))).openapi, "requestBody")))
              => IF IsRoot(Route(Min(RoutesAt(path, method))))
                 THEN ~Returned
                 ELSE (/\ Returned
                       /\ Truthy(Route(Min(RoutesAt(path, method))).action)
                       /\ Cardinality(RoutesOf(Route(Min(RoutesAt(path, method))).action)) = 1)
                          => IsUploadBody(Get(Operation(doc, path, method), "requestBody"),
                                          SchemasOf(doc),
                                          Route(Min(RoutesAt(path, method))))
    /\ \A limit \in FileLimits :
          /\ ExtractionAlone([UploadOne EXCEPT !.filesLimit = limit], "post").ctx.error
               = NoError
          /\ IsUploadBody(ExtractionAlone([UploadOne EXCEPT !.filesLimit = limit],
                                          "post").value.requestBody,
                          ExtractionAlone([UploadOne EXCEPT !.filesLimit = limit],
                                          "post").ctx.schemas,
                          [UploadOne EXCEPT !.filesLimit = limit])

\* A call with the multipart route of a root-level schema has thrown the
\* $$root error, after a call that registered the component of the
\* multipart route of an object schema.
UploadBodyComposedWitness ==
    /\ outcome = RootOnMultipart
    /\ calls = 2
    /\ \E i \in 1..Len(aliases) : Route(i) = UploadRoot
    /\ Has(Stored, "s.g")

NoBoundAction == "something is wrong"

\* A request body has to be generated for the route: it has no body of its
\* own, and its rule schema places a field in the body.
MustGenerateBody(alias, method) ==
    /\ IsOrdinary(alias)
    /\ ~Truthy(Get(alias.openapi, "requestBody"))
    /\ getParameters(method, ParamsOf(alias), TRUE).k # <<>>

\* C16 as stated: the error of a route without bound action is thrown only
\* when a request body must be generated for such a route; a route without
\* action and without body field is processed without error.
NoActionErrorOnlyForBody ==
    outcome = NoBoundAction
        => \E i \in 1..Len(aliases) : \E method \in SeqToSet(Route(i).methods) :
               ~Truthy(Route(i).action) /\ MustGenerateBody(Route(i), method)

\* C17 as stated: generate() only reads the routes it is given; from the
\* moment the caller supplies its list to the end of the call, the list
\* keeps its order and its elements.
RouteListUnchanged == [][pc # "idle" => aliases' = aliases]_vars


(***************************************************************************)
(* Properties of the servers, the tags and the version of the document     *)
(***************************************************************************)

\* No two entries of a list of servers have one URL.
DistinctUrls(servers) ==
    IsArr(servers) =>
        \A i, j \in 1..Len(servers.s) :
            Get(servers.s[i], "url") = Get(servers.s[j], "url") => i = j

\* C18: at every step of generate(), the servers of the document are of
\* distinct URLs, and so are the servers of every operation of the
\* document, the operations that took the server of a later route
\* included.
ServersDistinct ==
    /\ DistinctUrls(Get(doc, "servers"))
    /\ \A path \in SeqToSet(KeysOf(Get(doc, "paths"))) :
          \A method \in SeqToSet(KeysOf(Get(Get(doc, "paths"), path))) :
              DistinctUrls(Get(Operation(doc, path, method), "servers"))

\* A document is returned in which an operation took the server of a
\* second route: it lists two servers, and so does the document.
ServersDistinctWitness ==
    /\ Returned
    /\ Len(Get(doc, "servers").s) = 2
    /\ \E path \in OutputPaths, method \in AllMethods :
          /\ Cardinality(RoutesAt(path, method)) = 2
          /\ Len(Get(Operation(doc, path, method), "servers").s) = 2

\* The positions of the routes of the list that registered an operation:
\* the first at their path for one of their methods.
Registering ==
    {i \in 1..Len(aliases) :
        \E method \in SeqToSet(Route(i).methods) :
            Min(RoutesAt(OpenapiPath(Route(i)), method)) = i}

\* The positions of the registering routes that define a tag name.
Defining(name) ==
    {i \in Registering :
        \E n \in 1..Len(Route(i).tagDefs) : Get(Route(i).tagDefs[n], "name") = name}

\* The first definition of a tag name the routes of the list registered.
FirstDefinition(name) ==
    SelectSeq(Route(Min(Defining(name))).tagDefs,
              LAMBDA tagDef : Get(tagDef, "name") = name)[1]

TagsOf(d) == Get(d, "tags").s

\* C19: the tags of the returned document are in ascending order of name,
\* one entry per name at most, and the entry of a name is the first
\* definition that the routes registered for it, whatever later routes
\* define or use under that name.
TagsSortedFirstWins ==
    Returned =>
        /\ \A i, j \in 1..Len(TagsOf(doc)) :
              i < j => StrLess(Get(TagsOf(doc)[i], "name").v, Get(TagsOf(doc)[j], "name").v)
        /\ \A i \in 1..Len(TagsOf(doc)) :
              /\ Defining(Get(TagsOf(doc)[i], "name")) # {}
              /\ TagsOf(doc)[i] = removeExtensions(FirstDefinition(Get(TagsOf(doc)[i], "name")))

\* GET /a and GET /c/{i} both define and use t1: the returned document
\* holds one entry for t1, the definition of GET /a.
TagsSortedFirstWinsWitness ==
    /\ Returned
    /\ Cardinality(Defining(Str("t1"))) = 2
    /\ Len(TagsOf(doc)) = 1
    /\ TagsOf(doc)[1] = TagDef("t1", "first")

VersionOf(d) == Get(d, "openapi")

VersionWarning == [kind |-> "openapi version set manually"]

\* What a call of generate() with a version does to the version fields.
VersionSetBy(openApiVersion) ==
    /\ VersionOf(doc') = Str(openApiVersion \o ".0")
    /\ ~Has(document', "openapi")
    /\ log' = IF Has(document, "openapi") THEN Append(log, VersionWarning) ELSE log

\* C20: a call of generate() sets the version field of its document to the
\* one derived from its version argument, removes the version field of the
\* base document with a warning when the base has one, and no later step
\* of a call that does not throw changes the field: the version of the
\* base document is never in the output, in the first call and in every
\* later one.
VersionFromArgument ==
    [][/\ \A openApiVersion \in OpenApiVersions :
             GenerateBegin(openApiVersion) => VersionSetBy(openApiVersion)
       /\ (pc = "running" /\ outcome' \in {"none", "returned"})
             => VersionOf(doc') = VersionOf(doc)
       /\ (pc' = "idle" /\ outcome' = "returned")
             => /\ VersionOf(doc') \in {Str(v \o ".0") : v \in OpenApiVersions}
                /\ VersionOf(doc') # VersionOf(BaseDocument)]_vars

\* The first call has returned: the base document had a version field, the
\* warning is logged, and the document has a version derived from the
\* argument.
VersionFromArgumentWitness ==
    /\ Returned
    /\ calls = 1
    /\ Truthy(VersionOf(BaseDocument))
    /\ \E i \in 1..Len(log) : log[i] = VersionWarning
    /\ ~Has(document, "openapi")
    /\ VersionOf(doc) \in {Str(v \o ".0") : v \in OpenApiVersions}


(***************************************************************************)
(* Properties of the content types of a generated body                     *)
(***************************************************************************)

\* The names of the enabled body parsers of the route, in order.
EnabledParsers(alias) ==
    SelectSeq(KeysOf(alias.bodyParsers), LAMBDA parser : Truthy(Get(alias.bodyParsers, parser)))

RECURSIVE MimeTypesOf(_)
MimeTypesOf(parsers) ==
    IF parsers = <<>> THEN <<>>
    ELSE BODY_PARSERS_CONTENT_TYPE(Head(parsers)) \o MimeTypesOf(Tail(parsers))

MimeTypes ==
    {"application/json", "application/x-www-form-urlencoded", "text/plain",
     "multipart/form-data", "application/octet-stream"}

\* The content types the route's body is to have: those of its enabled
\* parsers, else the configured default, else the built-in default.
ExpectedContentTypes(alias) ==
    IF MimeTypesOf(EnabledParsers(alias)) # <<>> THEN MimeTypesOf(EnabledParsers(alias))
    ELSE IF Truthy(alias.defaultResponseContentType)
    THEN <<alias.defaultResponseContentType.v>>
    ELSE <<DEFAULT_CONTENT_TYPE>>

ContentKeysOf(op) == KeysOf(Get(Get(op, "requestBody"), "content"))

\* C21 as stated: the content map of a generated request body has the MIME
\* types of the enabled body parsers of the route, or the configured
\* default content type when no enabled parser maps to one, or the
\* built-in default when none is configured; it has at least one key, and
\* every key is a MIME type.
ContentTypesDefined ==
    Returned =>
        \A path \in OutputPaths, method \in AllMethods :
            (/\ RoutesAt(path, method) # {}
             /\ GeneratesBody(Route(Min(RoutesAt(path, method))), method))
                => /\ ContentKeysOf(Operation(doc, path, method))
                        = ExpectedContentTypes(Route(Min(RoutesAt(path, method))))
                   /\ Len(ContentKeysOf(Operation(doc, path, method))) >= 1
                   /\ SeqToSet(ContentKeysOf(Operation(doc, path, method))) \subseteq MimeTypes


(***************************************************************************)
(* Properties of the optional marker of a fragment                         *)
(***************************************************************************)

\* The rule is declared optional.
DeclaredOptional(rule) == Truthy(Get(getRuleFromSchema(rule), "optional"))

\* The fragment of a field of a rule schema, converted among its siblings.
FragmentIn(schema, field) == Get(getSchemaObjectFromSchema(schema), field)

\* C22 as stated: the fragment of every field of the rule schema of a route
\* of a returned call holds the optional marker if and only if the rule of
\* the field is declared optional, the fields that have to equal a sibling
\* included.
MarkerIffDeclaredOptional ==
    Returned =>
        \A i \in 1..Len(aliases) :
            (IsObj(Route(i).params) /\ ~IsRoot(Route(i))) =>
                \A field \in SeqToSet(getValidationRules(Route(i).params).k) :
                    Truthy(FragmentIn(Route(i).params, field)) =>
                        ((Get(FragmentIn(Route(i).params, field), EOAExtensions.optional)
                            = Bool(TRUE))
                         <=> DeclaredOptional(Get(Route(i).params, field)))


(***************************************************************************)
(* Properties of the routes that are dropped                               *)
(***************************************************************************)

\* The step drops a route: it logs that its path and method are registered.
DropsRoute ==
    /\ Len(log') = Len(log) + 1
    /\ log'[Len(log')].kind = "already registered"

\* The route the loop is at, while it is in the loop.
RouteAt == Route(idx)

\* The operations of a document, by path and method.
OperationsOf(d) ==
    [path \in SeqToSet(KeysOf(Get(d, "paths"))) |->
        [method \in AllMethods |-> Operation(d, path, method)]]

\* A path item without its description and summary.
Undescribed(item) == Del(Del(item, "description"), "summary")

\* The path items of a document, each without description and summary.
UndescribedPaths(d) ==
    [path \in SeqToSet(KeysOf(Get(d, "paths"))) |-> Undescribed(Get(Get(d, "paths"), path))]

\* C23 as stated: a step that drops a route has no effect other than the
\* warning; the document and the component store are as they were.
DropOnlyWarns ==
    [][DropsRoute => /\ doc' = doc
                     /\ components' = components
                     /\ tagsMap' = tagsMap]_vars

\* C23: a step that drops a route logs one warning and leaves the
\* operations of the document, the component store, the tags and the
\* servers as they were; of the document, nothing changes but the
\* description and the summary of the path item, which a joker route
\* rewrites.
DropKeepsOperations ==
    [][DropsRoute => /\ SubSeq(log', 1, Len(log)) = log
                     /\ OperationsOf(doc') = OperationsOf(doc)
                     /\ components' = components
                     /\ tagsMap' = tagsMap
                     /\ Get(doc', "tags") = Get(doc, "tags")
                     /\ Get(doc', "servers") = Get(doc, "servers")
                     /\ Get(doc', "components") = Get(doc, "components")
                     /\ UndescribedPaths(doc') = UndescribedPaths(doc)
                     /\ ~RouteAt.joker => doc' = doc]_vars

\* POST /b/:i, then POST /b/{i} of s.r on server one, which is dropped:
\* the returned document has neither the component s.r nor a server.
DropKeepsOperationsWitness ==
    /\ Returned
    /\ calls = 1
    /\ Len(aliases) = 2 /\ Route(1) = PostB /\ Route(2) = PostBBraces
    /\ Len(DroppedAt("/b/{i}", "post")) = 1
    /\ ~Has(SchemasOf(doc), "s.r")
    /\ Get(doc, "servers") = Arr(<<>>)
    /\ Truthy(Route(2).server)

\* The servers of a list that have the URL of the server of a route.
WithUrlOf(servers, alias) ==
    SelectSeq(servers.s, LAMBDA server : Get(server, "url") = ServerUrl(alias))

\* The second of two routes at a path and method brings the operation of
\* the first a server it does not list.
BringsServer(first, second) ==
    /\ Truthy(first.server)
    /\ Truthy(ServerUrl(second))
    /\ ServerUrl(second) # ServerUrl(first)

\* The route is the only one of the list on its server, and every one of
\* its methods is registered by an earlier route.
OnlyDropped(j) ==
    /\ \A k \in 1..Len(aliases) : k # j => ServerUrl(Route(k)) # ServerUrl(Route(j))
    /\ \A method \in SeqToSet(Route(j).methods) :
          Min(RoutesAt(OpenapiPath(Route(j)), method)) < j

\* What the second of two routes at a path and method has done.
SecondAt(op, path, method, first, second, j) ==
    IF BringsServer(first, second)
    THEN /\ Get(op, "servers") = Arr(<<first.server, second.server>>)
         /\ Len(DroppedAt(path, method)) = 0
         /\ Len(WithUrlOf(Get(doc, "servers"), second)) = 1
    ELSE /\ Len(DroppedAt(path, method)) = 1
         /\ Get(op, "servers") = (IF Truthy(first.server) THEN Arr(<<first.server>>)
                                  ELSE Arr(<<>>))
         /\ (~Truthy(first.server) /\ Truthy(ServerUrl(second)) /\ OnlyDropped(j))
               => WithUrlOf(Get(doc, "servers"), second) = <<>>

\* C24: of two routes of the list at one path and method, the second adds
\* its server to the operation of the first, and to the document, exactly
\* when the first has a server and the second a server of another URL,
\* whether or not their definitions otherwise agree; else the second is
\* dropped with one warning, and when the first has no server, the server
\* of the second is neither in the operation nor, from this route, in the
\* servers of the document.
AppendsOnlyOntoServers ==
    Returned =>
        \A path \in OutputPaths, method \in AllMethods :
            \A i, j \in RoutesAt(path, method) :
                (RoutesAt(path, method) = {i, j} /\ i < j) =>
                    SecondAt(Operation(doc, path, method), path, method,
                             Route(i), Route(j), j)

\* GET /a on no server, then GET /a of s.x on server one: the second is
\* dropped with a warning, and the document has no server.
AppendsOnlyOntoServersWitness ==
    /\ Returned
    /\ Len(aliases) = 2 /\ Route(1) = GetANoServer /\ Route(2) = GetA
    /\ Len(DroppedAt("/a", "get")) = 1
    /\ Get(Operation(doc, "/a", "get"), "servers") = Arr(<<>>)
    /\ Get(doc, "servers") = Arr(<<>>)


(***************************************************************************)
(* Properties of the path parameters under overrides                       *)
(***************************************************************************)

ParameterNames(parameters) == [i \in 1..Len(parameters) |-> Get(parameters[i], "name")]

\* The names of the path parameters the operation of a route is to have.
PathNamesOf(alias) ==
    IF Truthy(Overrides(alias)) THEN ParameterNames(Overrides(alias).s)
    ELSE [i \in 1..Len(Placeholders(OpenapiPath(alias))) |->
             Str(Placeholders(OpenapiPath(alias))[i])]

\* C25 as stated: the operation of every ordinary route has a path
\* parameter for every explicit path parameter of the route or, without
\* any, for every placeholder of its path, whichever other overrides the
\* route declares.
PathParametersKept ==
    Returned =>
        \A path \in OutputPaths, method \in AllMethods :
            (RoutesAt(path, method) # {} /\ IsOrdinary(Route(Min(RoutesAt(path, method)))))
                => ParameterNames(PathParametersOf(Operation(doc, path, method)))
                     = PathNamesOf(Route(Min(RoutesAt(path, method))))

\* The names that the references of a value point to, at any depth.
RECURSIVE ReferencedIn(_)
ReferencedIn(value) ==
    CASE IsArr(value) -> UNION {ReferencedIn(value.s[i]) : i \in 1..Len(value.s)}
      [] IsObj(value) ->
             UNION ({ReferencedIn(Get(value, value.k[i])) : i \in 1..Len(value.k)}
                    \cup {IF isReferenceObject(value) /\ StartsWith(Get(value, "$ref").v, RefTo(""))
                          THEN {SubSeq(Get(value, "$ref").v, Len(RefTo("")) + 1,
                                       Len(Get(value, "$ref").v))}
                          ELSE {}})
      [] OTHER -> {}

\* The request bodies of the operations of a document.
RequestBodiesOf(d) ==
    {Get(Operation(d, path, method), "requestBody") :
        path \in SeqToSet(KeysOf(Get(d, "paths"))), method \in AllMethods}

\* The names referenced by the request bodies and by the components of a
\* document.
ReferencesOf(d) ==
    UNION {ReferencedIn(body) : body \in RequestBodiesOf(d)} \cup ReferencedIn(SchemasOf(d))

\* C26: every reference #/components/schemas/<name> in a request body or in
\* a component of a returned document names a key of the document's
\* components.schemas, whatever calls came before and whichever routes
\* registered the same names.
ReferencesResolve ==
    Returned => \A name \in ReferencesOf(doc) : Has(SchemasOf(doc), name)

\* A second call has returned after a name was registered over a stored one,
\* and its document holds a request body that references a component which
\* itself references the component of a nested object.
ReferencesResolveWitness ==
    /\ Returned
    /\ calls = 2
    /\ \E name \in SeqToSet(Stored.k) : OverwriteCount(log, name) >= 1
    /\ \E body \in RequestBodiesOf(doc) :
          \E name \in ReferencedIn(body) :
              /\ Has(SchemasOf(doc), name)
              /\ ReferencedIn(Get(SchemasOf(doc), name)) # {}

\* The call has ended by a fatal error.
Failed == pc = "idle" /\ outcome \notin {"none", "returned"}

\* The names a route registers for one of its methods.
NamesFromMethod(alias, method) ==
    SeqToSet(extractParameters([schemas |-> EmptyObj, log |-> <<>>, error |-> NoError],
                               method, OpenapiPath(alias), alias).ctx.schemas.k)

\* The names a route of the list registers, for the methods it is the
\* first route of its path to have.
RegisteredBy(i) ==
    UNION {NamesFromMethod(Route(i), method) :
              method \in {n \in AllMethods :
                             /\ Includes(Route(i).methods, n)
                             /\ Min(RoutesAt(OpenapiPath(Route(i)), n)) = i}}

\* The names registered by the routes of the list processed before the
\* route the loop is at.
RegisteredEarlier == UNION {RegisteredBy(i) : i \in 1..(idx - 1)}

\* One step of the generator, as to the store around a fatal error: the
\* failing step returns no document and leaves in the store what the
\* earlier routes of the call registered and what the store held; no step
\* takes a name out of the store; a returning step puts every stored name
\* in its document.
FailureKeeps(old, new) ==
    /\ (pc = "running" /\ outcome' \notin {"none", "returned"})
          => /\ doc' = Undefined
             /\ pc' = "idle"
             /\ \A name \in RegisteredEarlier : Has(new, name)
    /\ \A name \in SeqToSet(KeysOf(old)) : Has(new, name)
    /\ (pc = "running" /\ outcome' = "returned")
          => \A name \in SeqToSet(KeysOf(new)) : Has(SchemasOf(doc'), name)

\* C27: a generate() call that fails on a route returns no document and
\* does not roll the store back: the components registered by the routes
\* processed earlier in the failing call stay in the store, through the
\* following calls, and are in the document of the next call that returns,
\* whatever routes that call is given.
StoreKeptOnFailure ==
    [][FailureKeeps(Get(components, "schemas"), Get(components', "schemas"))]_vars

\* The first call was given PostB and PostD and failed on /d after it
\* registered s.p and s.d.g; the second call, given neither route, has
\* returned a document that holds both components.
StoreKeptOnFailureWitness ==
    /\ Returned
    /\ calls = 2
    /\ Has(SchemasOf(doc), "s.p")
    /\ Has(SchemasOf(doc), "s.d.g")
    /\ ~Has(SchemasOf(doc), "s.d")
    /\ \A i \in 1..Len(aliases) : NamesFrom(Route(i)) \cap {"s.p", "s.d.g"} = {}

====
